---- MODULE Spec2Model ----
(***************************************************************************)
(* A model of the MAE flow-offload control plane of the sfc driver:        *)
(* the three refcounted registries (outer rules, encap. headers, action    *)
(* sets) of sfc_mae.c with their software-share / hardware-enable          *)
(* lifecycle, the flow insert / remove / cleanup handlers built on them,   *)
(* and the counter slots of sfc_mae_counter.c.                             *)
(*                                                                         *)
(* Every C function is an operator that takes the adapter state `w` (a     *)
(* record of the registries, the counter array and the device's own        *)
(* allocation state) and returns the state after the call together with    *)
(* the return code.  The device control interface is outside the driver:   *)
(* each of its calls either succeeds or fails as a whole, and which calls  *)
(* fail is an input `F` (a set of device function names) of the handler.   *)
(***************************************************************************)
EXTENDS Integers, Sequences, FiniteSets, TLC

\* ------------------------------------------------------------------ bounds
MaxFlows == 2       \* rte_flow objects that exist at the same time
MaxFaults == 1      \* device calls that fail in one behaviour
SFC_MAE_NB_RULES_MAX == 2   \* slots of mae->internal_rules (scaled down)
MaxPorts == 3       \* representor ports that ask for an internal rule
nb_action_rule_prios_max == 2   \* mae->nb_action_rule_prios_max
NCounters == 2      \* counters->n_mae_counters, the device's counter limit
MaxGen == 1         \* last generation number the counter stream reaches
MaxDelta == 1       \* largest packet / byte delta of one telemetry record
MaxValue == 1       \* cap of the accumulated packets / bytes of a slot
MaxXstat == 1       \* cap of each extended statistic
MaxCids == 1        \* standalone counter ids handed to sfc_mae_counter_add
MaxRecords == 1     \* records in a packet of the counter stream

\* --------------------------------------------------------------- constants
\* The all-ones resource id; every id the device hands out is below it.
EFX_MAE_RSRC_ID_INVALID == 65535

NULL == 0        \* the null pointer; entries live at addresses 1, 2, ...
OK == "OK"      \* the return code 0
EFX_TUNNEL_PROTOCOL_NONE == "NONE"

\* The layout of a packet of the counter stream (bytes).
ER_RX_SL_PACKETISER_HEADER_WORD_SIZE == 8
ER_RX_SL_PACKETISER_PAYLOAD_WORD_SIZE == 16
ERF_SC_PACKETISER_HEADER_VERSION_VALUE == 0
ERF_SC_PACKETISER_HEADER_IDENTIFIER_AR == 0
ERF_SC_PACKETISER_HEADER_HEADER_OFFSET_DEFAULT == 4

VARIABLES
    outer_rules,     \* mae->outer_rules: TAILQ of struct sfc_mae_outer_rule
    encap_headers,   \* mae->encap_headers: TAILQ of struct sfc_mae_encap_header
    action_sets,     \* mae->action_sets: TAILQ of struct sfc_mae_action_set
    internal_rules,  \* mae->internal_rules.rules[]: struct sfc_mae_rule
    repr_ports,      \* repr_proxy.ports[]: the mae_rule each port holds
    counters,        \* counter_registry.counters.mae_counters[]
    xstats,          \* counter_registry.counters.xstats
    counter_rxq_running, \* mae->counter_rxq_running
    counter_registry, \* pushed_n_buffers and use_credits of the registry
    dev,             \* the device: which resources it has handed out
    flows,           \* the rte_flow objects (struct sfc_flow_spec_mae)
    counter_ids,     \* struct sfc_mae_counter_id objects used on their own
    faults,          \* device calls that have failed so far
    pc,              \* where the telemetry thread and the control thread are
                     \* inside sfc_mae_counter_increment / _add / _del
    last             \* the last handler run: its inputs, result and device calls

vars == <<outer_rules, encap_headers, action_sets, internal_rules,
          repr_ports, counters, xstats,
          counter_rxq_running, counter_registry, dev, flows, counter_ids,
          faults, pc, last>>

\* ----------------------------------------------------------------- helpers
\* The adapter state the C functions work on.
World ==
    [outer_rules |-> outer_rules, encap_headers |-> encap_headers,
     action_sets |-> action_sets, internal_rules |-> internal_rules,
     repr_ports |-> repr_ports, counters |-> counters, xstats |-> xstats,
     counter_rxq_running |-> counter_rxq_running,
     counter_registry |-> counter_registry, dev |-> dev, calls |-> <<>>]

Has(q, p) == \E i \in 1..Len(q) : q[i].ptr = p
Ix(q, p) == CHOOSE i \in 1..Len(q) : q[i].ptr = p
Ent(q, p) == q[Ix(q, p)]
TailqRemove(q, p) == SelectSeq(q, LAMBDA e : e.ptr # p)

\* rte_zmalloc: the lowest address not in use by an entry of the list.
Malloc(q) == CHOOSE p \in 1..(Len(q) + 1) :
                 ~Has(q, p) /\ \A r \in 1..(p - 1) : Has(q, r)

\* One device call, as the log of the running handler keeps it: the device
\* function, the driver function that made it, the entry it was made for, the
\* hardware-enable refcount the caller saw, and the call's return code.
Call(w, fn, by, ent, refcnt, rc) ==
    [w EXCEPT !.calls = Append(@, [fn |-> fn, by |-> by, ent |-> ent,
                                   refcnt |-> refcnt, rc |-> rc])]

\* The device allocates the lowest id it has not handed out.
DevNewId(used) == CHOOSE i \in 1..(Cardinality(used) + 1) :
                      i \notin used /\ \A j \in 1..(i - 1) : j \in used

\* A device alloc of one resource kind: fails as a whole or hands out an id.
DevAlloc(w, kind, fn, by, ent, refcnt, F) ==
    IF fn \in F
    THEN [w |-> Call(w, fn, by, ent, refcnt, "EIO"), rc |-> "EIO",
          id |-> EFX_MAE_RSRC_ID_INVALID]
    ELSE LET id == DevNewId(w.dev[kind])
         IN [w |-> Call([w EXCEPT !.dev[kind] = @ \cup {id}],
                        fn, by, ent, refcnt, OK),
             rc |-> OK, id |-> id]

\* A device free: fails as a whole (ENOENT for an id the device does not
\* hold) or releases the id.
DevFree(w, kind, id, fn, by, ent, refcnt, F) ==
    IF id \notin w.dev[kind]
    THEN [w |-> Call(w, fn, by, ent, refcnt, "ENOENT"), rc |-> "ENOENT"]
    ELSE IF fn \in F
    THEN [w |-> Call(w, fn, by, ent, refcnt, "EIO"), rc |-> "EIO"]
    ELSE [w |-> Call([w EXCEPT !.dev[kind] = @ \ {id}],
                     fn, by, ent, refcnt, OK),
          rc |-> OK]

\* A device call that changes no allocation (filling an id into a spec).
DevCall(w, fn, by, ent, refcnt, F) ==
    LET rc == IF fn \in F THEN "EIO" ELSE OK
    IN [w |-> Call(w, fn, by, ent, refcnt, rc), rc |-> rc]

\* efx_mae_match_spec_init: fails as a whole (the fault is named apart for
\* the ACTION and the OUTER specification) or hands out the lowest handle
\* not alive; the log keeps the handle as the call's entry.
MatchSpecInit(w, by, fault, F) ==
    IF fault \in F
    THEN [w |-> Call(w, "efx_mae_match_spec_init", by, NULL, 0, "EIO"),
          rc |-> "EIO", id |-> NULL]
    ELSE LET id == DevNewId(w.dev.mspec)
         IN [w |-> Call([w EXCEPT !.dev.mspec = @ \cup {id}],
                        "efx_mae_match_spec_init", by, id, 0, OK),
             rc |-> OK, id |-> id]

\* efx_mae_match_spec_fini: releases the handle; the call returns nothing.
MatchSpecFini(w, match_spec_id, by) ==
    Call([w EXCEPT !.dev.mspec = @ \ {match_spec_id}],
         "efx_mae_match_spec_fini", by, match_spec_id, 0, OK)

\* A local variable of a C function: the value v under the name the rest of
\* the function body gives it.
With(v, K(_)) == K(v)

\* ---------------------------------------------------------- internal rules
\* A slot of mae->internal_rules.rules[] as rte_zmalloc leaves it; the slots
\* are numbered from 1, and a pointer to a slot is its number.
NoRule == [spec |-> NULL, actions |-> NULL, action_set |-> 0, rule_id |-> 0]

sfc_mae_internal_rule_find_empty_slot(w) ==
    LET empty == {e \in 1..SFC_MAE_NB_RULES_MAX :
                     w.internal_rules[e].spec = NULL}
    IN IF empty = {}
       THEN [rc |-> "ENOSPC", rule |-> NULL]
       ELSE [rc |-> OK,
             rule |-> CHOOSE e \in empty : \A d \in empty : e <= d]

\* prio is the caller's priority; rule->spec, rule->actions and
\* rule->action_set keep what the successful calls stored in them when a
\* later call fails.
sfc_mae_rule_add_mport_match_deliver(w, prio, F) ==
    LET by == "sfc_mae_rule_add_mport_match_deliver"
        slot == sfc_mae_internal_rule_find_empty_slot(w)
        rule == slot.rule
        fail_action_init(v, rc) ==
            [w |-> MatchSpecFini(v, v.internal_rules[rule].spec, by),
             rc |-> rc, rule |-> NULL]
        fail_action_set_alloc(v, rc) ==
            fail_action_init(Call(v, "efx_mae_action_set_spec_fini", by,
                                  rule, 0, OK), rc)
    IN
    IF prio > 0 /\ prio >= nb_action_rule_prios_max
    THEN [w |-> w, rc |-> "EINVAL", rule |-> NULL]
    ELSE IF slot.rc # OK
    THEN [w |-> w, rc |-> slot.rc, rule |-> NULL]
    ELSE
    With(MatchSpecInit(w, by, "efx_mae_match_spec_init", F),
    LAMBDA init :
    IF init.rc # OK
    THEN [w |-> init.w, rc |-> init.rc, rule |-> NULL]
    ELSE
    With(DevCall([init.w EXCEPT !.internal_rules[rule].spec = init.id],
                 "efx_mae_match_spec_mport_set", by, rule, 0, F),
    LAMBDA mport :
    IF mport.rc # OK
    THEN fail_action_init(mport.w, mport.rc)
    ELSE
    With(DevCall(mport.w, "efx_mae_action_set_spec_init", by, rule, 0, F),
    LAMBDA act :
    IF act.rc # OK
    THEN fail_action_init(act.w, act.rc)
    ELSE
    With(DevCall([act.w EXCEPT !.internal_rules[rule].actions = rule],
                 "efx_mae_action_set_populate_deliver", by, rule, 0, F),
    LAMBDA deliver :
    IF deliver.rc # OK
    THEN fail_action_set_alloc(deliver.w, deliver.rc)
    ELSE
    With(DevAlloc(deliver.w, "aset", "efx_mae_action_set_alloc", by, rule,
                  0, F),
    LAMBDA alloc :
    IF alloc.rc # OK
    THEN fail_action_set_alloc(alloc.w, alloc.rc)
    ELSE
    With(DevAlloc([alloc.w EXCEPT !.internal_rules[rule].action_set =
                                      alloc.id],
                  "rule", "efx_mae_action_rule_insert", by, rule, 0, F),
    LAMBDA ins :
    IF ins.rc # OK
    THEN fail_action_set_alloc(
             DevFree(ins.w, "aset", alloc.id, "efx_mae_action_set_free", by,
                     rule, 0, {}).w,
             ins.rc)
    ELSE [w |-> [ins.w EXCEPT !.internal_rules[rule].rule_id = ins.id],
          rc |-> OK, rule |-> rule]))))))

\* The return values of the four device calls are not looked at.
sfc_mae_rule_del(w, rule, F) ==
    LET by == "sfc_mae_rule_del"
    IN IF rule = NULL
       THEN w
       ELSE IF w.internal_rules[rule].spec = NULL
       THEN w
       ELSE
       With(DevFree(w, "rule", w.internal_rules[rule].rule_id,
                    "efx_mae_action_rule_remove", by, rule, 0, F).w,
       LAMBDA w1 :
       With(DevFree(w1, "aset", w1.internal_rules[rule].action_set,
                    "efx_mae_action_set_free", by, rule, 0, F).w,
       LAMBDA w2 :
       With(MatchSpecFini(Call(w2, "efx_mae_action_set_spec_fini", by, rule,
                               0, OK),
                          w2.internal_rules[rule].spec, by),
       LAMBDA w3 : [w3 EXCEPT !.internal_rules[rule].spec = NULL])))

\* ------------------------------------------------------------- outer rules
\* A variant that hands out the existing entry without taking a reference.
attach_outer_rule_without_ref(w, match_spec, encap_type) ==
    LET hits == {i \in 1..Len(w.outer_rules) :
                    /\ w.outer_rules[i].match_spec = match_spec
                    /\ w.outer_rules[i].encap_type = encap_type}
    IN IF hits = {}
       THEN [w |-> w, rule |-> NULL]
       ELSE LET i == CHOOSE i \in hits : \A j \in hits : i <= j
            IN [w |-> w, rule |-> w.outer_rules[i].ptr]

sfc_mae_outer_rule_attach(w, match_spec, encap_type) ==
    LET hits == {i \in 1..Len(w.outer_rules) :
                    /\ w.outer_rules[i].match_spec = match_spec
                    /\ w.outer_rules[i].encap_type = encap_type}
    IN IF hits = {}
       THEN [w |-> w, rule |-> NULL]
       ELSE LET i == CHOOSE i \in hits : \A j \in hits : i <= j
            IN [w |-> [w EXCEPT !.outer_rules[i].refcnt = @ + 1],
                rule |-> w.outer_rules[i].ptr]

sfc_mae_outer_rule_add(w, match_spec, match_spec_id, encap_type, F) ==
    IF "rte_zmalloc" \in F
    THEN [w |-> Call(w, "rte_zmalloc", "sfc_mae_outer_rule_add", NULL, 0,
                     "ENOMEM"),
          rc |-> "ENOMEM", rule |-> NULL]
    ELSE LET p == Malloc(w.outer_rules)
         IN [w |-> [w EXCEPT !.outer_rules = Append(@,
                       [ptr |-> p, refcnt |-> 1, match_spec |-> match_spec,
                        match_spec_id |-> match_spec_id,
                        encap_type |-> encap_type, fw_refcnt |-> 0,
                        rule_id |-> EFX_MAE_RSRC_ID_INVALID])],
             rc |-> OK, rule |-> p]

sfc_mae_outer_rule_del(w, rule) ==
    LET i == Ix(w.outer_rules, rule)
        w1 == [w EXCEPT !.outer_rules[i].refcnt = @ - 1]
    IN IF w1.outer_rules[i].refcnt # 0
       THEN w1
       ELSE [MatchSpecFini(w1, w1.outer_rules[i].match_spec_id,
                           "sfc_mae_outer_rule_del")
                EXCEPT !.outer_rules = TailqRemove(@, rule)]

\* A variant that allocates a device resource on every enable.
enable_outer_rule_always_insert(w, rule, F) ==
    LET by == "sfc_mae_outer_rule_enable"
        i == Ix(w.outer_rules, rule)
        refcnt == w.outer_rules[i].fw_refcnt
    IN With(DevAlloc(w, "outer", "efx_mae_outer_rule_insert", by, rule,
                     refcnt, F),
       LAMBDA ins :
       IF ins.rc # OK
       THEN [w |-> ins.w, rc |-> ins.rc]
       ELSE
       With(DevCall([ins.w EXCEPT !.outer_rules[i].rule_id = ins.id],
                    "efx_mae_match_spec_outer_rule_id_set", by, rule, refcnt,
                    F),
       LAMBDA set :
       IF set.rc # OK
       THEN [w |-> set.w, rc |-> set.rc]
       ELSE [w |-> [set.w EXCEPT !.outer_rules[i].fw_refcnt = @ + 1],
             rc |-> OK]))

sfc_mae_outer_rule_enable(w, rule, F) ==
    LET by == "sfc_mae_outer_rule_enable"
        i == Ix(w.outer_rules, rule)
        refcnt == w.outer_rules[i].fw_refcnt
    IN With(IF refcnt = 0
            THEN DevAlloc(w, "outer", "efx_mae_outer_rule_insert", by, rule,
                          refcnt, F)
            ELSE [w |-> w, rc |-> OK, id |-> w.outer_rules[i].rule_id],
       LAMBDA ins :
       IF ins.rc # OK
       THEN [w |-> ins.w, rc |-> ins.rc]
       ELSE
       With(DevCall([ins.w EXCEPT !.outer_rules[i].rule_id = ins.id],
                    "efx_mae_match_spec_outer_rule_id_set", by, rule, refcnt,
                    F),
       LAMBDA set :
       IF set.rc # OK
       THEN IF refcnt = 0
            THEN [w |-> DevFree(set.w, "outer", ins.id,
                                "efx_mae_outer_rule_remove", by, rule,
                                refcnt, F).w,
                  rc |-> set.rc]
            ELSE [w |-> set.w, rc |-> set.rc]
       ELSE [w |-> [set.w EXCEPT !.outer_rules[i].fw_refcnt = @ + 1],
             rc |-> OK]))

sfc_mae_outer_rule_disable(w, rule, F) ==
    LET by == "sfc_mae_outer_rule_disable"
        i == Ix(w.outer_rules, rule)
        refcnt == w.outer_rules[i].fw_refcnt
    IN IF refcnt # 1
       THEN [w |-> [w EXCEPT !.outer_rules[i].fw_refcnt = @ - 1], rc |-> OK]
       ELSE
       With(DevFree(w, "outer", w.outer_rules[i].rule_id,
                    "efx_mae_outer_rule_remove", by, rule, refcnt, F),
       LAMBDA rem :
       IF rem.rc # OK
       THEN [w |-> rem.w, rc |-> rem.rc]
       ELSE [w |-> [rem.w EXCEPT
                       !.outer_rules[i].rule_id = EFX_MAE_RSRC_ID_INVALID,
                       !.outer_rules[i].fw_refcnt = @ - 1],
             rc |-> OK])


\* ----------------------------------------------------------- encap. headers
sfc_mae_encap_header_attach(w, bounce_eh) ==
    LET hits == {i \in 1..Len(w.encap_headers) :
                    w.encap_headers[i].buf = bounce_eh.buf}
    IN IF hits = {}
       THEN [w |-> w, encap_header |-> NULL]
       ELSE LET i == CHOOSE i \in hits : \A j \in hits : i <= j
            IN [w |-> [w EXCEPT !.encap_headers[i].refcnt = @ + 1],
                encap_header |-> w.encap_headers[i].ptr]

sfc_mae_encap_header_add(w, bounce_eh, F) ==
    IF "rte_zmalloc" \in F
    THEN [w |-> Call(w, "rte_zmalloc", "sfc_mae_encap_header_add", NULL, 0,
                     "ENOMEM"),
          rc |-> "ENOMEM", encap_header |-> NULL]
    ELSE LET p == Malloc(w.encap_headers)
         IN [w |-> [w EXCEPT !.encap_headers = Append(@,
                       [ptr |-> p, refcnt |-> 1, buf |-> bounce_eh.buf,
                        type |-> bounce_eh.type, fw_refcnt |-> 0,
                        eh_id |-> EFX_MAE_RSRC_ID_INVALID])],
             rc |-> OK, encap_header |-> p]

\* A variant that never releases the reference.
encap_header_del_never(w, encap_header) == w

sfc_mae_encap_header_del(w, encap_header) ==
    IF encap_header = NULL
    THEN w
    ELSE LET i == Ix(w.encap_headers, encap_header)
             w1 == [w EXCEPT !.encap_headers[i].refcnt = @ - 1]
         IN IF w1.encap_headers[i].refcnt # 0
            THEN w1
            ELSE [w1 EXCEPT !.encap_headers = TailqRemove(@, encap_header)]

sfc_mae_encap_header_enable(w, encap_header, F) ==
    IF encap_header = NULL
    THEN [w |-> w, rc |-> OK]
    ELSE
    LET by == "sfc_mae_encap_header_enable"
        i == Ix(w.encap_headers, encap_header)
        refcnt == w.encap_headers[i].fw_refcnt
    IN With(IF refcnt = 0
            THEN DevAlloc(w, "eh", "efx_mae_encap_header_alloc", by,
                          encap_header, refcnt, F)
            ELSE [w |-> w, rc |-> OK, id |-> w.encap_headers[i].eh_id],
       LAMBDA alloc :
       IF alloc.rc # OK
       THEN [w |-> alloc.w, rc |-> alloc.rc]
       ELSE
       With(DevCall([alloc.w EXCEPT !.encap_headers[i].eh_id = alloc.id],
                    "efx_mae_action_set_fill_in_eh_id", by, encap_header,
                    refcnt, F),
       LAMBDA fill :
       IF fill.rc # OK
       THEN IF refcnt = 0
            THEN [w |-> DevFree(fill.w, "eh", alloc.id,
                                "efx_mae_encap_header_free", by,
                                encap_header, refcnt, F).w,
                  rc |-> fill.rc]
            ELSE [w |-> fill.w, rc |-> fill.rc]
       ELSE [w |-> [fill.w EXCEPT !.encap_headers[i].fw_refcnt = @ + 1],
             rc |-> OK]))

\* A variant that drops the hardware reference without freeing the header.
disable_encap_header_without_free(w, encap_header, F) ==
    IF encap_header = NULL
    THEN [w |-> w, rc |-> OK]
    ELSE LET i == Ix(w.encap_headers, encap_header)
         IN [w |-> [w EXCEPT !.encap_headers[i].fw_refcnt = @ - 1],
             rc |-> OK]

sfc_mae_encap_header_disable(w, encap_header, F) ==
    IF encap_header = NULL
    THEN [w |-> w, rc |-> OK]
    ELSE
    LET by == "sfc_mae_encap_header_disable"
        i == Ix(w.encap_headers, encap_header)
        refcnt == w.encap_headers[i].fw_refcnt
    IN IF refcnt # 1
       THEN [w |-> [w EXCEPT !.encap_headers[i].fw_refcnt = @ - 1],
             rc |-> OK]
       ELSE
       With(DevFree(w, "eh", w.encap_headers[i].eh_id,
                    "efx_mae_encap_header_free", by, encap_header, refcnt, F),
       LAMBDA free :
       IF free.rc # OK
       THEN [w |-> free.w, rc |-> free.rc]
       ELSE [w |-> [free.w EXCEPT
                       !.encap_headers[i].eh_id = EFX_MAE_RSRC_ID_INVALID,
                       !.encap_headers[i].fw_refcnt = @ - 1],
             rc |-> OK])

\* ----------------------------------------------------------- counter slots
\* efx_mae_counters_alloc: the device hands out the lowest counter it does not
\* have in use, together with the generation number its counter stream has
\* reached.  With "counter id out of range" in F the id it hands out is
\* beyond the driver's array.
DevCounterFree(w) == {c \in 0..(NCounters - 1) : c \notin w.dev.counter}

sfc_mae_counter_add(w, counter, F) ==
    LET by == "sfc_mae_counter_add"
        free == DevCounterFree(w)
        id == IF "counter id out of range" \in F THEN NCounters
              ELSE CHOOSE c \in free : \A d \in free : c <= d
        gen == w.dev.gen
        w1 == Call([w EXCEPT !.dev.counter = @ \cup {id}],
                   "efx_mae_counters_alloc", by, id, 0, OK)
    IN IF "efx_mae_counters_alloc" \in F \/ free = {}
       THEN [w |-> Call(w, "efx_mae_counters_alloc", by, NULL, 0, "ENOSPC"),
             rc |-> "ENOSPC", counter |-> counter]
       ELSE IF id >= NCounters
            THEN [w |-> DevFree(w1, "counter", id, "efx_mae_counters_free",
                                by, id, 0, F).w,
                  rc |-> "EFAULT", counter |-> counter]
            ELSE [w |-> [w1 EXCEPT !.counters[id] =
                            [inuse |-> TRUE, generation_count |-> gen,
                             value |-> @.value, reset |-> @.value]],
                  rc |-> OK,
                  counter |-> [counter EXCEPT !.mae_id = id]]

sfc_mae_counter_del(w, counter, F) ==
    IF counter.mae_id = EFX_MAE_RSRC_ID_INVALID
    THEN [w |-> w, rc |-> OK]
    ELSE LET w1 == [w EXCEPT !.counters[counter.mae_id].inuse = FALSE]
         IN DevFree(w1, "counter", counter.mae_id, "efx_mae_counters_free",
                    "sfc_mae_counter_del", counter.mae_id, 0, F)

\* A variant that applies an update whatever its generation.
increment_any_generation(w, mae_counter_id, generation_count, pkts, bytes) ==
    LET p == w.counters[mae_counter_id]
    IN IF ~p.inuse
       THEN [w EXCEPT !.xstats.not_inuse_update = @ + 1]
       ELSE [w EXCEPT !.counters[mae_counter_id].value =
                          [pkts |-> p.value.pkts + pkts,
                           bytes |-> p.value.bytes + bytes]]

sfc_mae_counter_increment(w, mae_counter_id, generation_count, pkts, bytes) ==
    LET p == w.counters[mae_counter_id]
    IN IF ~p.inuse
       THEN [w EXCEPT !.xstats.not_inuse_update = @ + 1]
       ELSE IF generation_count < p.generation_count
            THEN [w EXCEPT !.xstats.realloc_update = @ + 1]
            ELSE [w EXCEPT !.counters[mae_counter_id].value =
                               [pkts |-> p.value.pkts + pkts,
                                bytes |-> p.value.bytes + bytes]]


\* A variant that never moves the reset baseline.
counter_get_without_reset(w, counter, reset) ==
    LET p == w.counters[counter.mae_id]
    IN [w |-> w, rc |-> OK,
        data |-> [hits |-> p.value.pkts - p.reset.pkts,
                  bytes |-> p.value.bytes - p.reset.bytes]]

sfc_mae_counter_get(w, counter, reset) ==
    LET p == w.counters[counter.mae_id]
        value == p.value
    IN [w |-> IF reset
              THEN [w EXCEPT !.counters[counter.mae_id].reset = value]
              ELSE w,
        rc |-> OK,
        data |-> [hits |-> value.pkts - p.reset.pkts,
                  bytes |-> value.bytes - p.reset.bytes]]


\* The loop over the records of a packet: data[i] is the i-th record of the
\* payload, its counter index and its packet and byte counts.
RECURSIVE CounterPacketLoop(_, _, _)
CounterPacketLoop(w, m, i) ==
    IF i > m.counter_count
    THEN w
    ELSE CounterPacketLoop(
             sfc_mae_counter_increment(w, m.data[i].counter_index,
                                       m.generation_count, m.data[i].pkts,
                                       m.data[i].bytes),
             m, i + 1)

\* A variant that applies the records that are there when the packet
\* declares more records than it holds.
parse_counter_packet_truncated(w, m) ==
    IF m.nb_segs # 1 \/ m.data_len < ER_RX_SL_PACKETISER_HEADER_WORD_SIZE
    THEN w
    ELSE CounterPacketLoop(w, [m EXCEPT !.counter_count = Len(m.data)], 1)

sfc_mae_parse_counter_packet(w, m) ==
    IF m.nb_segs # 1
    THEN w
    ELSE IF m.data_len < ER_RX_SL_PACKETISER_HEADER_WORD_SIZE
    THEN w
    ELSE IF m.version # ERF_SC_PACKETISER_HEADER_VERSION_VALUE
    THEN w
    ELSE IF m.id # ERF_SC_PACKETISER_HEADER_IDENTIFIER_AR
    THEN w
    ELSE IF m.header_offset # ERF_SC_PACKETISER_HEADER_HEADER_OFFSET_DEFAULT
    THEN w
    ELSE IF m.payload_offset
                + m.counter_count * ER_RX_SL_PACKETISER_PAYLOAD_WORD_SIZE
            > m.data_len
    THEN w
    ELSE IF m.payload_offset % 4 # 0
    THEN w
    ELSE CounterPacketLoop(w, m, 1)

\* The burst loop of the service routine.
RECURSIVE CounterRoutineLoop(_, _, _)
CounterRoutineLoop(w, mbufs, i) ==
    IF i > Len(mbufs)
    THEN w
    ELSE CounterRoutineLoop(sfc_mae_parse_counter_packet(w, mbufs[i]), mbufs,
                            i + 1)

\* unsigned int counts wrap around; the width is scaled down.
UINT_RANGE == 8

SFC_COUNTER_RXQ_REFILL_LEVEL == 2   \* scaled down

\* A variant that never records the buffers it has given credits for.
routine_keeps_pushed_n_buffers(w, mbufs, F) ==
    With(CounterRoutineLoop(w, mbufs, 1), LAMBDA w1 :
    IF ~w1.counter_registry.use_credits THEN w1
    ELSE
    LET pushed == w1.dev.pushed
        pushed_diff == (pushed - w1.counter_registry.pushed_n_buffers
                        + UINT_RANGE) % UINT_RANGE
    IN IF pushed_diff < SFC_COUNTER_RXQ_REFILL_LEVEL THEN w1
       ELSE
       With(DevCall(w1, "efx_mae_counters_stream_give_credits",
                    "sfc_mae_counter_routine", pushed_diff, 0, F),
       LAMBDA give :
       IF give.rc = OK
       THEN [give.w EXCEPT !.dev.credits = @ + pushed_diff]
       ELSE give.w))

\* The service routine: the burst, then the credits for the buffers pushed
\* to the Rx queue since the last credits; its return value is always 0.
sfc_mae_counter_routine(w, mbufs, F) ==
    With(CounterRoutineLoop(w, mbufs, 1), LAMBDA w1 :
    IF ~w1.counter_registry.use_credits THEN w1
    ELSE
    LET pushed == w1.dev.pushed
        pushed_diff == (pushed - w1.counter_registry.pushed_n_buffers
                        + UINT_RANGE) % UINT_RANGE
    IN IF pushed_diff < SFC_COUNTER_RXQ_REFILL_LEVEL THEN w1
       ELSE
       With(DevCall(w1, "efx_mae_counters_stream_give_credits",
                    "sfc_mae_counter_routine", pushed_diff, 0, F),
       LAMBDA give :
       IF give.rc = OK
       THEN [give.w EXCEPT !.dev.credits = @ + pushed_diff,
                           !.counter_registry.pushed_n_buffers = pushed]
       ELSE give.w))

\* -------------------------------------------------------------- action sets
sfc_mae_counters_enable(w, action_set, F) ==
    LET i == Ix(w.action_sets, action_set)
        as == w.action_sets[i]
    IN IF as.n_counters = 0
       THEN [w |-> w, rc |-> OK]
       ELSE
       With(sfc_mae_counter_add(w, as.counters[1], F),
       LAMBDA add :
       IF add.rc # OK
       THEN [w |-> add.w, rc |-> add.rc]
       ELSE
       With(DevCall([add.w EXCEPT !.action_sets[i].counters[1] = add.counter],
                    "efx_mae_action_set_fill_in_counter_id",
                    "sfc_mae_counters_enable", action_set, as.fw_refcnt, F),
       LAMBDA fill :
       IF fill.rc # OK
       THEN [w |-> sfc_mae_counter_del(fill.w, add.counter, F).w,
             rc |-> fill.rc]
       ELSE [w |-> fill.w, rc |-> OK]))

sfc_mae_counters_disable(w, action_set, F) ==
    LET as == Ent(w.action_sets, action_set)
    IN IF as.n_counters = 0
       THEN [w |-> w, rc |-> OK]
       ELSE sfc_mae_counter_del(w, as.counters[1], F)

\* A variant that never finds an action set to share.
attach_action_set_never(w, encap_header, n_count, spec) ==
    [w |-> w, action_set |-> NULL]

\* A variant that shares action sets that carry COUNT.
attach_action_set_with_count(w, encap_header, n_count, spec) ==
    LET hits == {i \in 1..Len(w.action_sets) :
                    /\ w.action_sets[i].encap_header = encap_header
                    /\ w.action_sets[i].spec = spec}
    IN IF hits = {}
       THEN [w |-> w, action_set |-> NULL]
       ELSE LET i == CHOOSE i \in hits : \A j \in hits : i <= j
            IN [w |-> [w EXCEPT !.action_sets[i].refcnt = @ + 1],
                action_set |-> w.action_sets[i].ptr]

sfc_mae_action_set_attach(w, encap_header, n_count, spec) ==
    LET hits == {i \in 1..Len(w.action_sets) :
                    /\ w.action_sets[i].encap_header = encap_header
                    /\ n_count = 0
                    /\ w.action_sets[i].spec = spec}
    IN IF hits = {}
       THEN [w |-> w, action_set |-> NULL]
       ELSE LET i == CHOOSE i \in hits : \A j \in hits : i <= j
            IN [w |-> [w EXCEPT !.action_sets[i].refcnt = @ + 1],
                action_set |-> w.action_sets[i].ptr]

sfc_mae_action_set_add(w, actions, spec, encap_header, n_counters, F) ==
    IF "rte_zmalloc" \in F
    THEN [w |-> Call(w, "rte_zmalloc", "sfc_mae_action_set_add", NULL, 0,
                     "ENOMEM"),
          rc |-> "ENOMEM", action_set |-> NULL]
    ELSE LET p == Malloc(w.action_sets)
         IN [w |-> [w EXCEPT !.action_sets = Append(@,
                       [ptr |-> p, refcnt |-> 1, n_counters |-> n_counters,
                        counters |-> [k \in 1..n_counters |->
                                         [mae_id |-> EFX_MAE_RSRC_ID_INVALID,
                                          rte_id |-> actions.count_ids[k]]],
                        spec |-> spec, encap_header |-> encap_header,
                        fw_refcnt |-> 0,
                        aset_id |-> EFX_MAE_RSRC_ID_INVALID])],
             rc |-> OK, action_set |-> p]

RECURSIVE CountersRemoveFrom(_, _, _, _)
CountersRemoveFrom(w, cs, k, F) ==
    IF k > Len(cs)
    THEN w
    ELSE CountersRemoveFrom(sfc_mae_counter_del(w, cs[k], F).w, cs, k + 1, F)

sfc_mae_counters_remove(w, cs, F) == CountersRemoveFrom(w, cs, 1, F)

sfc_mae_action_set_del(w, action_set, F) ==
    LET i == Ix(w.action_sets, action_set)
        as == w.action_sets[i]
        w1 == [w EXCEPT !.action_sets[i].refcnt = @ - 1]
    IN IF w1.action_sets[i].refcnt # 0
       THEN w1
       ELSE [sfc_mae_encap_header_del(
                 sfc_mae_counters_remove(w1, as.counters, F),
                 as.encap_header)
                EXCEPT !.action_sets = TailqRemove(@, action_set)]

sfc_mae_action_set_enable(w, action_set, F) ==
    LET by == "sfc_mae_action_set_enable"
        i == Ix(w.action_sets, action_set)
        as == w.action_sets[i]
    IN IF as.fw_refcnt # 0
       THEN [w |-> [w EXCEPT !.action_sets[i].fw_refcnt = @ + 1], rc |-> OK]
       ELSE
       With(sfc_mae_encap_header_enable(w, as.encap_header, F),
       LAMBDA eh :
       IF eh.rc # OK
       THEN [w |-> eh.w, rc |-> eh.rc]
       ELSE
       With(sfc_mae_counters_enable(eh.w, action_set, F),
       LAMBDA cnt :
       IF cnt.rc # OK
       THEN [w |-> cnt.w, rc |-> cnt.rc]
       ELSE
       With(DevAlloc(cnt.w, "aset", "efx_mae_action_set_alloc", by,
                     action_set, as.fw_refcnt, F),
       LAMBDA alloc :
       IF alloc.rc # OK
       THEN [w |-> sfc_mae_encap_header_disable(
                       sfc_mae_counters_disable(alloc.w, action_set, F).w,
                       as.encap_header, F).w,
             rc |-> alloc.rc]
       ELSE [w |-> [alloc.w EXCEPT !.action_sets[i].aset_id = alloc.id,
                                   !.action_sets[i].fw_refcnt = @ + 1],
             rc |-> OK])))

sfc_mae_action_set_disable(w, action_set, F) ==
    LET by == "sfc_mae_action_set_disable"
        i == Ix(w.action_sets, action_set)
        as == w.action_sets[i]
    IN IF as.fw_refcnt # 1
       THEN [w |-> [w EXCEPT !.action_sets[i].fw_refcnt = @ - 1], rc |-> OK]
       ELSE
       With(DevFree(w, "aset", as.aset_id, "efx_mae_action_set_free", by,
                    action_set, as.fw_refcnt, F),
       LAMBDA free :
       IF free.rc # OK
       THEN [w |-> free.w, rc |-> free.rc]
       ELSE
       With(sfc_mae_counters_disable(
                [free.w EXCEPT !.action_sets[i].aset_id =
                                   EFX_MAE_RSRC_ID_INVALID],
                action_set, F),
       LAMBDA cnt :
       IF cnt.rc # OK
       THEN [w |-> cnt.w, rc |-> cnt.rc]
       ELSE
       With(sfc_mae_encap_header_disable(cnt.w, as.encap_header, F),
       LAMBDA eh :
       IF eh.rc # OK
       THEN [w |-> eh.w, rc |-> eh.rc]
       ELSE [w |-> [eh.w EXCEPT !.action_sets[i].fw_refcnt = @ - 1],
             rc |-> OK])))


sfc_mae_counter_start(w, F) ==
    LET by == "sfc_mae_counter_start"
    IN IF w.counter_rxq_running
       THEN [w |-> w, rc |-> OK]
       ELSE
       With(DevCall(w, "efx_mae_counters_stream_start", by, NULL, 0, F),
       LAMBDA start :
       IF start.rc # OK
       THEN [w |-> start.w, rc |-> start.rc]
       ELSE
       With(DevCall([start.w EXCEPT !.counter_registry =
                        [pushed_n_buffers |-> 0,
                         use_credits |-> start.w.dev.uses_credits]],
                    "sfc_mae_counter_service_register", by, NULL, 0, F),
       LAMBDA reg :
       IF reg.rc # OK
       THEN [w |-> DevCall(reg.w, "efx_mae_counters_stream_stop", by, NULL,
                           0, {}).w,
             rc |-> reg.rc]
       ELSE [w |-> [reg.w EXCEPT !.counter_rxq_running = TRUE], rc |-> OK]))

\* ------------------------------------------------------------ pattern items
\* Fields of the rte_flow_item_* structures and of a match specification are
\* kept as the bytes they hold in memory, most significant byte first for the
\* big-endian ones.
RTE_BE16(x) == <<x \div 256, x % 256>>
Zero(n) == [i \in 1..n |-> 0]
Ones(n) == [i \in 1..n |-> 255]

RTE_ETHER_TYPE_IPV4 == 2048      \* 0x0800
RTE_ETHER_TYPE_IPV6 == 34525     \* 0x86dd
RTE_ETHER_TYPE_VLAN == 33024     \* 0x8100
RTE_ETHER_TYPE_QINQ == 34984     \* 0x88a8
RTE_ETHER_TYPE_QINQ1 == 37120    \* 0x9100
RTE_ETHER_TYPE_QINQ2 == 37376    \* 0x9200
RTE_ETHER_TYPE_QINQ3 == 37632    \* 0x9300
IPPROTO_TCP == 6
IPPROTO_UDP == 17
RTE_IPV6_HDR_TC_SHIFT == 20
SFC_MAE_MATCH_VLAN_MAX_NTAGS == 2
SFC_MAE_FIELD_HANDLING_DEFERRED == "EFX_MAE_FIELD_NIDS"

\* Bits of byte m that are outside byte s.
BitsOutside(m, s) ==
    \E b \in 0..7 : (m \div 2^b) % 2 = 1 /\ (s \div 2^b) % 2 = 0

\* efx_mae_match_spec_field_set: a match specification is the fields set in
\* it so far, each with its value and mask.
efx_mae_match_spec_field_set(spec, field_id, value, mask) ==
    (field_id :> [value |-> value, mask |-> mask]) @@ spec

field_ids_no_remap ==
    [f \in {"ETHER_TYPE_BE", "ETH_SADDR_BE", "ETH_DADDR_BE", "VLAN0_TCI_BE",
            "VLAN0_PROTO_BE", "VLAN1_TCI_BE", "VLAN1_PROTO_BE", "SRC_IP4_BE",
            "DST_IP4_BE", "IP_PROTO", "IP_TOS", "IP_TTL", "SRC_IP6_BE",
            "DST_IP6_BE", "L4_SPORT_BE", "L4_DPORT_BE", "TCP_FLAGS_BE"} |-> f]

field_ids_remap_to_encap ==
    [f \in {"ETHER_TYPE_BE", "ETH_SADDR_BE", "ETH_DADDR_BE", "VLAN0_TCI_BE",
            "VLAN0_PROTO_BE", "VLAN1_TCI_BE", "VLAN1_PROTO_BE", "SRC_IP4_BE",
            "DST_IP4_BE", "IP_PROTO", "IP_TOS", "IP_TTL", "SRC_IP6_BE",
            "DST_IP6_BE", "L4_SPORT_BE", "L4_DPORT_BE"} |-> "ENC_" \o f]

\* Sets a field of the specification ctx->match_spec points at.
CtxFieldSet(ctx, field_id, value, mask) ==
    IF ctx.match_spec = "match_spec_outer"
    THEN [ctx EXCEPT !.match_spec_outer =
              efx_mae_match_spec_field_set(@, field_id, value, mask)]
    ELSE [ctx EXCEPT !.match_spec_action =
              efx_mae_match_spec_field_set(@, field_id, value, mask)]

\* The default masks of the flow API, by item type.
rte_flow_item_mask ==
    [ETH |-> [type |-> Zero(2), dst |-> Ones(6), src |-> Ones(6),
              other |-> Zero(1)],
     VLAN |-> [tci |-> <<15, 255>>, inner_type |-> Zero(2),
               other |-> Zero(1)],
     IPV4 |-> [src_addr |-> Ones(4), dst_addr |-> Ones(4),
               next_proto_id |-> Zero(1), type_of_service |-> Zero(1),
               time_to_live |-> Zero(1), other |-> Zero(1)],
     IPV6 |-> [vtc_flow |-> Zero(4), src_addr |-> Ones(16),
               dst_addr |-> Ones(16), proto |-> Zero(1),
               hop_limits |-> Zero(1), other |-> Zero(1)],
     TCP |-> [src_port |-> Ones(2), dst_port |-> Ones(2),
              data_off_tcp_flags |-> Zero(2), other |-> Zero(1)],
     UDP |-> [src_port |-> Ones(2), dst_port |-> Ones(2), other |-> Zero(1)],
     VXLAN |-> [vni |-> Ones(3), other |-> Zero(1)],
     GENEVE |-> [vni |-> Ones(3), other |-> Zero(1)],
     NVGRE |-> [vni |-> Ones(3), other |-> Zero(1)]]

\* sfc_flow_parse_init: the item's spec and mask, the default mask standing
\* in for an absent one, once the mask is known to stay within supp_mask.
sfc_flow_parse_init(item, supp_mask, def_mask) ==
    IF ~item.spec_set
    THEN [rc |-> IF item.mask_set THEN "EINVAL" ELSE OK, spec_set |-> FALSE,
          spec |-> item.spec, mask |-> def_mask]
    ELSE LET mask == IF item.mask_set THEN item.mask ELSE def_mask
         IN IF \E n \in DOMAIN mask : \E i \in 1..Len(mask[n]) :
                   BitsOutside(mask[n][i], supp_mask[n][i])
            THEN [rc |-> "ENOTSUP", spec_set |-> FALSE, spec |-> item.spec,
                  mask |-> mask]
            ELSE [rc |-> OK, spec_set |-> TRUE, spec |-> item.spec,
                  mask |-> mask]

FlocNames(flocs) == {flocs[i].name : i \in 1..Len(flocs)}

sfc_mae_item_build_supp_mask(flocs, layout) ==
    [n \in DOMAIN layout |->
        IF n \in FlocNames(flocs) THEN Ones(Len(layout[n]))
        ELSE Zero(Len(layout[n]))]

RECURSIVE ParseItemLoop(_, _, _, _, _)
ParseItemLoop(flocs, i, spec, mask, ctx) ==
    IF i > Len(flocs) THEN ctx
    ELSE IF flocs[i].field_id = SFC_MAE_FIELD_HANDLING_DEFERRED
    THEN ParseItemLoop(flocs, i + 1, spec, mask, ctx)
    ELSE ParseItemLoop(flocs, i + 1, spec, mask,
             CtxFieldSet(ctx, ctx.field_ids_remap[flocs[i].field_id],
                         spec[flocs[i].name], mask[flocs[i].name]))

sfc_mae_parse_item(flocs, spec, mask, ctx) ==
    [rc |-> OK, ctx |-> ParseItemLoop(flocs, 1, spec, mask, ctx)]

supported_tpids ==
    <<RTE_BE16(RTE_ETHER_TYPE_VLAN), RTE_BE16(RTE_ETHER_TYPE_QINQ),
      RTE_BE16(RTE_ETHER_TYPE_QINQ1), RTE_BE16(RTE_ETHER_TYPE_QINQ2),
      RTE_BE16(RTE_ETHER_TYPE_QINQ3)>>

\* The loop over the VLAN tags of sfc_mae_rule_process_pattern_data; tpid_idx
\* counts from 0 as in the source.
RECURSIVE TpidLoop(_, _, _)
TpidLoop(pdata, ethertype_idx, nb_supported_tpids) ==
    IF ethertype_idx >= pdata.nb_vlan_tags THEN OK
    ELSE IF pdata.ethertypes[ethertype_idx].mask # Ones(2) THEN "EINVAL"
    ELSE LET first == pdata.nb_vlan_tags - ethertype_idx - 1
             found == \E tpid_idx \in first..(nb_supported_tpids - 1) :
                          pdata.ethertypes[ethertype_idx].value =
                              supported_tpids[tpid_idx + 1]
         IN IF ~found /\ first <= nb_supported_tpids THEN "EINVAL"
            ELSE TpidLoop(pdata, ethertype_idx + 1, 1)

RECURSIVE SetVlanProtos(_, _)
SetVlanProtos(ctx, i) ==
    IF i >= ctx.pattern_data.nb_vlan_tags THEN ctx
    ELSE SetVlanProtos(
             CtxFieldSet(ctx,
                 ctx.field_ids_remap[<<"VLAN0_PROTO_BE",
                                       "VLAN1_PROTO_BE">>[i + 1]],
                 ctx.pattern_data.ethertypes[i].value,
                 ctx.pattern_data.ethertypes[i].mask),
             i + 1)

sfc_mae_set_ethertypes(ctx) ==
    LET et == ctx.pattern_data.ethertypes[ctx.pattern_data.nb_vlan_tags]
    IN SetVlanProtos(
           CtxFieldSet(ctx, ctx.field_ids_remap["ETHER_TYPE_BE"],
                       et.value, et.mask), 0)

\* Variants that emit the declared values without looking at the next layer.
innermost_ethertype_unresolved(pdata) ==
    [rc |-> OK, et |-> pdata.ethertypes[pdata.nb_vlan_tags]]

l3_next_proto_unchecked(pdata) ==
    [rc |-> OK, value |-> pdata.l3_next_proto_value,
     mask |-> pdata.l3_next_proto_mask]

\* The innermost L2 type after the check against the L3 item's EtherType.
InnermostEthertype(pdata) ==
    LET et == pdata.ethertypes[pdata.nb_vlan_tags]
        restriction == pdata.innermost_ethertype_restriction
    IN IF restriction.mask # Ones(2) THEN [rc |-> OK, et |-> et]
       ELSE IF et.mask = Zero(2)
       THEN [rc |-> OK, et |-> [value |-> restriction.value,
                                mask |-> Ones(2)]]
       ELSE IF et.mask # Ones(2) \/ et.value # restriction.value
       THEN [rc |-> "EINVAL", et |-> et]
       ELSE [rc |-> OK, et |-> et]

\* The L3 next protocol after the check against the L4 item's protocol.
L3NextProto(pdata) ==
    IF pdata.l3_next_proto_restriction_mask # 255
    THEN [rc |-> OK, value |-> pdata.l3_next_proto_value,
          mask |-> pdata.l3_next_proto_mask]
    ELSE IF pdata.l3_next_proto_mask = 0
    THEN [rc |-> OK, value |-> pdata.l3_next_proto_restriction_value,
          mask |-> 255]
    ELSE IF \/ pdata.l3_next_proto_mask # 255
            \/ pdata.l3_next_proto_value #
                   pdata.l3_next_proto_restriction_value
    THEN [rc |-> "EINVAL", value |-> pdata.l3_next_proto_value,
          mask |-> pdata.l3_next_proto_mask]
    ELSE [rc |-> OK, value |-> pdata.l3_next_proto_value,
          mask |-> pdata.l3_next_proto_mask]

sfc_mae_rule_process_pattern_data(ctx) ==
    LET pdata == ctx.pattern_data
        nb_supported_tpids ==
            IF /\ pdata.innermost_ethertype_restriction.mask # Zero(2)
               /\ pdata.nb_vlan_tags < SFC_MAE_MATCH_VLAN_MAX_NTAGS
            THEN 1 ELSE Len(supported_tpids)
    IN
    IF TpidLoop(pdata, 0, nb_supported_tpids) # OK
    THEN [rc |-> "EINVAL", ctx |-> ctx]
    ELSE
    With(InnermostEthertype(pdata), LAMBDA inner :
    IF inner.rc # OK
    THEN [rc |-> "EINVAL", ctx |-> ctx]
    ELSE
    With(sfc_mae_set_ethertypes(
             [ctx EXCEPT !.pattern_data.ethertypes[pdata.nb_vlan_tags] =
                             inner.et]),
    LAMBDA ctx1 :
    With(L3NextProto(pdata), LAMBDA proto :
    IF proto.rc # OK
    THEN [rc |-> "EINVAL", ctx |-> ctx1]
    ELSE [rc |-> OK,
          ctx |-> CtxFieldSet(
                      [ctx1 EXCEPT
                           !.pattern_data.l3_next_proto_value = proto.value,
                           !.pattern_data.l3_next_proto_mask = proto.mask],
                      ctx1.field_ids_remap["IP_PROTO"],
                      <<proto.value>>, <<proto.mask>>)])))

flocs_eth ==
    <<[field_id |-> SFC_MAE_FIELD_HANDLING_DEFERRED, name |-> "type"],
      [field_id |-> "ETH_DADDR_BE", name |-> "dst"],
      [field_id |-> "ETH_SADDR_BE", name |-> "src"]>>

sfc_mae_rule_parse_item_eth(item, ctx) ==
    With(sfc_flow_parse_init(item,
             sfc_mae_item_build_supp_mask(flocs_eth, rte_flow_item_mask.ETH),
             rte_flow_item_mask.ETH),
    LAMBDA init :
    IF init.rc # OK THEN [rc |-> init.rc, ctx |-> ctx]
    ELSE IF ~init.spec_set THEN [rc |-> OK, ctx |-> ctx]
    ELSE sfc_mae_parse_item(flocs_eth, init.spec, init.mask,
             [ctx EXCEPT !.pattern_data.ethertypes[0] =
                             [value |-> init.spec.type,
                              mask |-> init.mask.type]]))

flocs_vlan ==
    <<[field_id |-> "VLAN0_TCI_BE", name |-> "tci"],
      [field_id |-> SFC_MAE_FIELD_HANDLING_DEFERRED, name |-> "inner_type"],
      [field_id |-> "VLAN1_TCI_BE", name |-> "tci"],
      [field_id |-> SFC_MAE_FIELD_HANDLING_DEFERRED, name |-> "inner_type"]>>

sfc_mae_rule_parse_item_vlan(item, ctx) ==
    IF ctx.pattern_data.nb_vlan_tags = SFC_MAE_MATCH_VLAN_MAX_NTAGS
    THEN [rc |-> "ENOTSUP", ctx |-> ctx]
    ELSE
    LET nb_flocs == Len(flocs_vlan) \div SFC_MAE_MATCH_VLAN_MAX_NTAGS
        first == ctx.pattern_data.nb_vlan_tags * nb_flocs
        flocs == SubSeq(flocs_vlan, first + 1, first + nb_flocs)
        nb_vlan_tags == ctx.pattern_data.nb_vlan_tags + 1
    IN
    With([ctx EXCEPT !.pattern_data.nb_vlan_tags = nb_vlan_tags],
    LAMBDA ctx1 :
    With(sfc_flow_parse_init(item,
             sfc_mae_item_build_supp_mask(flocs, rte_flow_item_mask.VLAN),
             rte_flow_item_mask.VLAN),
    LAMBDA init :
    IF init.rc # OK THEN [rc |-> init.rc, ctx |-> ctx1]
    ELSE IF ~init.spec_set THEN [rc |-> OK, ctx |-> ctx1]
    ELSE sfc_mae_parse_item(flocs, init.spec, init.mask,
             [ctx1 EXCEPT !.pattern_data.ethertypes[nb_vlan_tags] =
                              [value |-> init.spec.inner_type,
                               mask |-> init.mask.inner_type]])))

flocs_ipv4 ==
    <<[field_id |-> "SRC_IP4_BE", name |-> "src_addr"],
      [field_id |-> "DST_IP4_BE", name |-> "dst_addr"],
      [field_id |-> SFC_MAE_FIELD_HANDLING_DEFERRED,
       name |-> "next_proto_id"],
      [field_id |-> "IP_TOS", name |-> "type_of_service"],
      [field_id |-> "IP_TTL", name |-> "time_to_live"]>>

sfc_mae_rule_parse_item_ipv4(item, ctx) ==
    With(sfc_flow_parse_init(item,
             sfc_mae_item_build_supp_mask(flocs_ipv4,
                                          rte_flow_item_mask.IPV4),
             rte_flow_item_mask.IPV4),
    LAMBDA init :
    IF init.rc # OK THEN [rc |-> init.rc, ctx |-> ctx]
    ELSE
    With([ctx EXCEPT !.pattern_data.innermost_ethertype_restriction =
                         [value |-> RTE_BE16(RTE_ETHER_TYPE_IPV4),
                          mask |-> RTE_BE16(65535)]],
    LAMBDA ctx1 :
    IF ~init.spec_set THEN [rc |-> OK, ctx |-> ctx1]
    ELSE sfc_mae_parse_item(flocs_ipv4, init.spec, init.mask,
             [ctx1 EXCEPT !.pattern_data.l3_next_proto_value =
                              init.spec.next_proto_id[1],
                          !.pattern_data.l3_next_proto_mask =
                              init.mask.next_proto_id[1]])))

flocs_ipv6 ==
    <<[field_id |-> "SRC_IP6_BE", name |-> "src_addr"],
      [field_id |-> "DST_IP6_BE", name |-> "dst_addr"],
      [field_id |-> SFC_MAE_FIELD_HANDLING_DEFERRED, name |-> "proto"],
      [field_id |-> "IP_TTL", name |-> "hop_limits"]>>

\* RTE_BE32(RTE_IPV6_HDR_TC_MASK): the traffic class bits of vtc_flow.
vtc_flow_be == <<15, 240, 0, 0>>

\* The traffic class of a big-endian vtc_flow word.
TrafficClass(vtc_flow) ==
    (((vtc_flow[1] % 16) * 2^24 + (vtc_flow[2] \div 16) * 2^20)
        \div 2^RTE_IPV6_HDR_TC_SHIFT) % 256

sfc_mae_rule_parse_item_ipv6(item, ctx) ==
    With(sfc_flow_parse_init(item,
             [sfc_mae_item_build_supp_mask(flocs_ipv6,
                                           rte_flow_item_mask.IPV6)
                  EXCEPT !.vtc_flow = vtc_flow_be],
             rte_flow_item_mask.IPV6),
    LAMBDA init :
    IF init.rc # OK THEN [rc |-> init.rc, ctx |-> ctx]
    ELSE
    With([ctx EXCEPT !.pattern_data.innermost_ethertype_restriction =
                         [value |-> RTE_BE16(RTE_ETHER_TYPE_IPV6),
                          mask |-> RTE_BE16(65535)]],
    LAMBDA ctx1 :
    IF ~init.spec_set THEN [rc |-> OK, ctx |-> ctx1]
    ELSE
    With(sfc_mae_parse_item(flocs_ipv6, init.spec, init.mask,
             [ctx1 EXCEPT !.pattern_data.l3_next_proto_value =
                              init.spec.proto[1],
                          !.pattern_data.l3_next_proto_mask =
                              init.mask.proto[1]]),
    LAMBDA parsed :
    [rc |-> OK,
     ctx |-> CtxFieldSet(parsed.ctx, parsed.ctx.field_ids_remap["IP_TOS"],
                         <<TrafficClass(init.spec.vtc_flow)>>,
                         <<TrafficClass(init.mask.vtc_flow)>>)])))

flocs_tcp ==
    <<[field_id |-> "L4_SPORT_BE", name |-> "src_port"],
      [field_id |-> "L4_DPORT_BE", name |-> "dst_port"],
      [field_id |-> "TCP_FLAGS_BE", name |-> "data_off_tcp_flags"]>>

sfc_mae_rule_parse_item_tcp(item, ctx) ==
    IF ctx.match_spec # "match_spec_action"
    THEN [rc |-> "EINVAL", ctx |-> ctx]
    ELSE
    With(sfc_flow_parse_init(item,
             sfc_mae_item_build_supp_mask(flocs_tcp, rte_flow_item_mask.TCP),
             rte_flow_item_mask.TCP),
    LAMBDA init :
    IF init.rc # OK THEN [rc |-> init.rc, ctx |-> ctx]
    ELSE
    With([ctx EXCEPT
              !.pattern_data.l3_next_proto_restriction_value = IPPROTO_TCP,
              !.pattern_data.l3_next_proto_restriction_mask = 255],
    LAMBDA ctx1 :
    IF ~init.spec_set THEN [rc |-> OK, ctx |-> ctx1]
    ELSE sfc_mae_parse_item(flocs_tcp, init.spec, init.mask, ctx1)))

flocs_udp ==
    <<[field_id |-> "L4_SPORT_BE", name |-> "src_port"],
      [field_id |-> "L4_DPORT_BE", name |-> "dst_port"]>>

sfc_mae_rule_parse_item_udp(item, ctx) ==
    With(sfc_flow_parse_init(item,
             sfc_mae_item_build_supp_mask(flocs_udp, rte_flow_item_mask.UDP),
             rte_flow_item_mask.UDP),
    LAMBDA init :
    IF init.rc # OK THEN [rc |-> init.rc, ctx |-> ctx]
    ELSE
    With([ctx EXCEPT
              !.pattern_data.l3_next_proto_restriction_value = IPPROTO_UDP,
              !.pattern_data.l3_next_proto_restriction_mask = 255],
    LAMBDA ctx1 :
    IF ~init.spec_set THEN [rc |-> OK, ctx |-> ctx1]
    ELSE sfc_mae_parse_item(flocs_udp, init.spec, init.mask, ctx1)))

flocs_tunnel == <<[field_id |-> "none", name |-> "vni"]>>

\* memset(&ctx_mae->pattern_data, 0, ...)
NoPatternData ==
    [ethertypes |-> [i \in 0..SFC_MAE_MATCH_VLAN_MAX_NTAGS |->
                        [value |-> Zero(2), mask |-> Zero(2)]],
     nb_vlan_tags |-> 0,
     innermost_ethertype_restriction |-> [value |-> Zero(2),
                                          mask |-> Zero(2)],
     l3_next_proto_value |-> 0, l3_next_proto_mask |-> 0,
     l3_next_proto_restriction_value |-> 0,
     l3_next_proto_restriction_mask |-> 0]

sfc_mae_rule_parse_item_tunnel(item, ctx) ==
    With(sfc_mae_rule_process_pattern_data(ctx), LAMBDA data :
    IF data.rc # OK THEN data
    ELSE
    With([data.ctx EXCEPT !.pattern_data = NoPatternData], LAMBDA ctx1 :
    With(sfc_flow_parse_init(item,
             sfc_mae_item_build_supp_mask(flocs_tunnel,
                                          ctx1.tunnel_def_mask),
             ctx1.tunnel_def_mask),
    LAMBDA init :
    IF init.rc # OK THEN [rc |-> init.rc, ctx |-> ctx1]
    ELSE
    With([ctx1 EXCEPT !.match_spec = "match_spec_action",
                      !.field_ids_remap = field_ids_no_remap],
    LAMBDA ctx2 :
    IF ~init.spec_set THEN [rc |-> OK, ctx |-> ctx2]
    ELSE [rc |-> OK,
          ctx |-> CtxFieldSet(ctx2, "ENC_VNET_ID_BE",
                              <<0>> \o init.spec.vni,
                              <<0>> \o init.mask.vni)]))))

SFC_FLOW_ITEM_ANY_LAYER == "ANY_LAYER"
SFC_FLOW_ITEM_START_LAYER == "START_LAYER"

sfc_flow_items ==
    [ETH |-> [prev_layer |-> SFC_FLOW_ITEM_START_LAYER, layer |-> "L2"],
     VLAN |-> [prev_layer |-> "L2", layer |-> "L2"],
     IPV4 |-> [prev_layer |-> "L2", layer |-> "L3"],
     IPV6 |-> [prev_layer |-> "L2", layer |-> "L3"],
     TCP |-> [prev_layer |-> "L3", layer |-> "L4"],
     UDP |-> [prev_layer |-> "L3", layer |-> "L4"],
     VXLAN |-> [prev_layer |-> "L4", layer |-> SFC_FLOW_ITEM_START_LAYER],
     GENEVE |-> [prev_layer |-> "L4", layer |-> SFC_FLOW_ITEM_START_LAYER],
     NVGRE |-> [prev_layer |-> "L3", layer |-> SFC_FLOW_ITEM_START_LAYER]]

TunnelItems == {"VXLAN", "GENEVE", "NVGRE"}

\* sfc_flow_items[].parse
ItemParse(item, ctx) ==
    CASE item.type = "ETH" -> sfc_mae_rule_parse_item_eth(item, ctx)
      [] item.type = "VLAN" -> sfc_mae_rule_parse_item_vlan(item, ctx)
      [] item.type = "IPV4" -> sfc_mae_rule_parse_item_ipv4(item, ctx)
      [] item.type = "IPV6" -> sfc_mae_rule_parse_item_ipv6(item, ctx)
      [] item.type = "TCP" -> sfc_mae_rule_parse_item_tcp(item, ctx)
      [] item.type = "UDP" -> sfc_mae_rule_parse_item_udp(item, ctx)
      [] OTHER -> sfc_mae_rule_parse_item_tunnel(item, ctx)

\* sfc_flow_parse_pattern: the items in order, each checked against the layer
\* of the one before it; a pattern holds one tunnel item at most.
RECURSIVE FlowParsePatternLoop(_, _, _, _, _)
FlowParsePatternLoop(pattern, i, prev_layer, is_ifrm, ctx) ==
    IF i > Len(pattern) THEN [rc |-> OK, ctx |-> ctx]
    ELSE IF pattern[i].type \notin DOMAIN sfc_flow_items
    THEN [rc |-> "ENOTSUP", ctx |-> ctx]
    ELSE IF /\ prev_layer # SFC_FLOW_ITEM_ANY_LAYER
            /\ sfc_flow_items[pattern[i].type].prev_layer # prev_layer
    THEN [rc |-> "ENOTSUP", ctx |-> ctx]
    ELSE IF pattern[i].type \in TunnelItems /\ is_ifrm
    THEN [rc |-> "EINVAL", ctx |-> ctx]
    ELSE
    With(ItemParse(pattern[i], ctx), LAMBDA parsed :
    IF parsed.rc # OK THEN parsed
    ELSE FlowParsePatternLoop(pattern, i + 1,
             sfc_flow_items[pattern[i].type].layer,
             is_ifrm \/ pattern[i].type \in TunnelItems, parsed.ctx))

sfc_flow_parse_pattern(pattern, ctx) ==
    FlowParsePatternLoop(pattern, 1, SFC_FLOW_ITEM_ANY_LAYER, FALSE, ctx)

\* The first tunnel item of the pattern, 0 without one.
FirstTunnel(pattern) ==
    IF \E i \in 1..Len(pattern) : pattern[i].type \in TunnelItems
    THEN CHOOSE i \in 1..Len(pattern) :
             /\ pattern[i].type \in TunnelItems
             /\ \A j \in 1..(i - 1) : pattern[j].type \notin TunnelItems
    ELSE 0

\* A variant that opens the OUTER specification for any tunnel type at any
\* priority.
encap_parse_init_unchecked(mae, pattern, ctx) ==
    LET t == FirstTunnel(pattern)
    IN IF t = 0 THEN [rc |-> OK, ctx |-> ctx]
       ELSE [rc |-> OK,
             ctx |-> [ctx EXCEPT !.encap_type = pattern[t].type,
                                 !.tunnel_def_mask =
                                     rte_flow_item_mask[pattern[t].type],
                                 !.match_spec_outer = <<>>,
                                 !.outer_set = TRUE,
                                 !.match_spec = "match_spec_outer",
                                 !.field_ids_remap =
                                     field_ids_remap_to_encap]]

sfc_mae_rule_encap_parse_init(mae, pattern, ctx) ==
    LET t == FirstTunnel(pattern)
    IN IF t = 0 THEN [rc |-> OK, ctx |-> ctx]
       ELSE
       With([ctx EXCEPT !.encap_type = pattern[t].type,
                        !.tunnel_def_mask =
                            rte_flow_item_mask[pattern[t].type]],
       LAMBDA ctx1 :
       IF pattern[t].type \notin mae.encap_types_supported
       THEN [rc |-> "ENOTSUP", ctx |-> ctx1]
       ELSE IF ctx1.priority >= mae.nb_outer_rule_prios_max
       THEN [rc |-> "ENOTSUP", ctx |-> ctx1]
       ELSE [rc |-> OK,
             ctx |-> [ctx1 EXCEPT !.match_spec_outer = <<>>,
                                  !.outer_set = TRUE,
                                  !.match_spec = "match_spec_outer",
                                  !.field_ids_remap =
                                      field_ids_remap_to_encap]])

\* The part of sfc_mae_rule_parse_pattern that builds the match
\* specifications from the items: the parse context when the deferred fields
\* of the last frame have been resolved.
PatternItemsCompile(mae, priority, pattern) ==
    With([match_spec_action |-> <<>>, match_spec_outer |-> <<>>,
          outer_set |-> FALSE, match_spec |-> "match_spec_action",
          field_ids_remap |-> field_ids_no_remap,
          tunnel_def_mask |-> <<>>,
          pattern_data |-> NoPatternData,
          encap_type |-> EFX_TUNNEL_PROTOCOL_NONE, priority |-> priority],
    LAMBDA ctx :
    With(sfc_mae_rule_encap_parse_init(mae, pattern, ctx), LAMBDA init :
    IF init.rc # OK THEN init
    ELSE
    With(sfc_flow_parse_pattern(pattern, init.ctx), LAMBDA parsed :
    IF parsed.rc # OK THEN parsed
    ELSE sfc_mae_rule_process_pattern_data(parsed.ctx))))

\* ------------------------------------------------------------ rule compiler
\* A pattern as the item parsers render it: the tunnel type the lookahead
\* finds (NONE without a tunnel item) and the OUTER match specification the
\* items up to the tunnel item compile to.
Patterns ==
    {[encap_type |-> EFX_TUNNEL_PROTOCOL_NONE, outer |-> "none"],
     [encap_type |-> "VXLAN", outer |-> "o1"]}

\* What the item parsers and the device's validity checks say of a pattern.
PatternVerdicts == {"ok", "bad_item", "outer_invalid", "action_invalid"}

\* An action list as the action parsers render it: the action specification
\* it compiles to apart from decap, encap and COUNT, the header bytes a
\* VXLAN_ENCAP action leaves in the bounce buffer ("none" without one), the
\* ids of its COUNT actions in order, and whether it has a VXLAN_DECAP.
ActionLists ==
    {[kind |-> "deliver", eh |-> "none", count_ids |-> <<>>,
      decap |-> FALSE],
     [kind |-> "deliver", eh |-> "h1", count_ids |-> <<>>, decap |-> FALSE],
     [kind |-> "deliver", eh |-> "h1", count_ids |-> <<7>>,
      decap |-> FALSE],
     [kind |-> "deliver", eh |-> "none", count_ids |-> <<7, 8>>,
      decap |-> FALSE]}

ActionVerdicts == {"ok", "bad_action"}

\* efx_mae_actions_t: what efx_mae_action_set_specs_equal compares.
ActionSpec(actions) ==
    [kind |-> actions.kind, encap |-> actions.eh # "none",
     n_count |-> Len(actions.count_ids), decap |-> actions.decap]

BounceEh(actions) ==
    [type |-> IF actions.eh = "none" THEN EFX_TUNNEL_PROTOCOL_NONE
              ELSE "VXLAN",
     buf |-> actions.eh]

NoSpec ==
    [stage |-> "UNBOUND", outer_rule |-> NULL, action_set |-> NULL,
     rule_id |-> EFX_MAE_RSRC_ID_INVALID, match_spec |-> FALSE,
     match_spec_id |-> NULL,
     pattern |-> "none", actions |-> "none"]

\* ctx->match_spec_outer is the handle the caller still holds when the
\* function returns: NULL once an entry tracks the specification or the
\* function has finalised it.
\* A variant that leaves the parse context holding the OUTER handle when
\* the outer rule id cannot be set.
process_outer_keeps_handle(w, pattern, match_spec_outer, verdict, F) ==
    LET by == "sfc_mae_rule_process_outer"
    IN
    IF pattern.encap_type = EFX_TUNNEL_PROTOCOL_NONE
    THEN [w |-> w, rc |-> OK, rule |-> NULL,
          match_spec_outer |-> match_spec_outer]
    ELSE IF verdict = "outer_invalid"
    THEN [w |-> w, rc |-> "ENOTSUP", rule |-> NULL,
          match_spec_outer |-> match_spec_outer]
    ELSE
    With(sfc_mae_outer_rule_attach(w, pattern.outer, pattern.encap_type),
    LAMBDA att :
    With(IF att.rule # NULL
         THEN [w |-> MatchSpecFini(att.w, match_spec_outer, by), rc |-> OK,
               rule |-> att.rule]
         ELSE sfc_mae_outer_rule_add(w, pattern.outer, match_spec_outer,
                                     pattern.encap_type, F),
    LAMBDA got :
    IF got.rc # OK
    THEN [w |-> got.w, rc |-> got.rc, rule |-> NULL,
          match_spec_outer |-> match_spec_outer]
    ELSE
    With(DevCall(got.w, "efx_mae_match_spec_outer_rule_id_set", by,
                 got.rule, 0, F),
    LAMBDA set :
    IF set.rc # OK
    THEN [w |-> sfc_mae_outer_rule_del(set.w, got.rule), rc |-> set.rc,
          rule |-> NULL, match_spec_outer |-> match_spec_outer]
    ELSE [w |-> set.w, rc |-> OK, rule |-> got.rule,
          match_spec_outer |-> NULL])))

sfc_mae_rule_process_outer(w, pattern, match_spec_outer, verdict, F) ==
    LET by == "sfc_mae_rule_process_outer"
    IN
    IF pattern.encap_type = EFX_TUNNEL_PROTOCOL_NONE
    THEN [w |-> w, rc |-> OK, rule |-> NULL,
          match_spec_outer |-> match_spec_outer]
    ELSE IF verdict = "outer_invalid"
    THEN [w |-> w, rc |-> "ENOTSUP", rule |-> NULL,
          match_spec_outer |-> match_spec_outer]
    ELSE
    With(sfc_mae_outer_rule_attach(w, pattern.outer, pattern.encap_type),
    LAMBDA att :
    With(IF att.rule # NULL
         THEN [w |-> MatchSpecFini(att.w, match_spec_outer, by), rc |-> OK,
               rule |-> att.rule]
         ELSE sfc_mae_outer_rule_add(w, pattern.outer, match_spec_outer,
                                     pattern.encap_type, F),
    LAMBDA got :
    IF got.rc # OK
    THEN [w |-> got.w, rc |-> got.rc, rule |-> NULL,
          match_spec_outer |-> match_spec_outer]
    ELSE
    With(DevCall(got.w, "efx_mae_match_spec_outer_rule_id_set", by,
                 got.rule, 0, F),
    LAMBDA set :
    IF set.rc # OK
    THEN [w |-> sfc_mae_outer_rule_del(set.w, got.rule), rc |-> set.rc,
          rule |-> NULL, match_spec_outer |-> NULL]
    ELSE [w |-> set.w, rc |-> OK, rule |-> got.rule,
          match_spec_outer |-> NULL])))

sfc_mae_rule_encap_parse_fini(w, encap_type, match_spec_outer) ==
    IF encap_type = EFX_TUNNEL_PROTOCOL_NONE THEN w
    ELSE IF match_spec_outer # NULL
    THEN MatchSpecFini(w, match_spec_outer, "sfc_mae_rule_encap_parse_fini")
    ELSE w

\* The exits of sfc_mae_rule_parse_pattern through its fail labels.
ParsePatternFail(w, spec, rc, encap_type, outer, action) ==
    [w |-> MatchSpecFini(
               sfc_mae_rule_encap_parse_fini(w, encap_type, outer),
               action, "sfc_mae_rule_parse_pattern"),
     rc |-> rc, spec |-> spec]

\* The verdict says what the item parsers and the device's validity checks
\* find: "bad_encap" is a tunnel type or priority that
\* sfc_mae_rule_encap_parse_init rejects, "bad_item" an item that
\* sfc_flow_parse_pattern or sfc_mae_rule_process_pattern_data rejects.
sfc_mae_rule_parse_pattern(w, spec, pattern, verdict, F) ==
    LET by == "sfc_mae_rule_parse_pattern"
        encap_type == pattern.encap_type
    IN
    With(MatchSpecInit(w, by, "efx_mae_match_spec_init", F),
    LAMBDA init :
    IF init.rc # OK
    THEN [w |-> init.w, rc |-> init.rc, spec |-> spec]
    ELSE IF verdict = "bad_encap"
    THEN [w |-> MatchSpecFini(init.w, init.id, by), rc |-> "ENOTSUP",
          spec |-> spec]
    ELSE
    With(IF encap_type = EFX_TUNNEL_PROTOCOL_NONE
         THEN [w |-> init.w, rc |-> OK, id |-> NULL]
         ELSE MatchSpecInit(init.w, "sfc_mae_rule_encap_parse_init",
                            "efx_mae_match_spec_init (outer)", F),
    LAMBDA outer_init :
    IF outer_init.rc # OK
    THEN [w |-> MatchSpecFini(outer_init.w, init.id, by),
          rc |-> outer_init.rc, spec |-> spec]
    ELSE IF verdict = "bad_item"
    THEN ParsePatternFail(outer_init.w, spec, "EINVAL", encap_type,
                          outer_init.id, init.id)
    ELSE
    With(sfc_mae_rule_process_outer(outer_init.w, pattern, outer_init.id,
                                    verdict, F),
    LAMBDA outer :
    With([spec EXCEPT !.outer_rule = outer.rule],
    LAMBDA spec1 :
    IF outer.rc # OK
    THEN ParsePatternFail(outer.w, spec1, outer.rc, encap_type,
                          outer.match_spec_outer, init.id)
    ELSE IF verdict = "action_invalid"
    THEN ParsePatternFail(outer.w, spec1, "ENOTSUP", encap_type,
                          outer.match_spec_outer, init.id)
    ELSE [w |-> outer.w, rc |-> OK,
          spec |-> [spec1 EXCEPT !.match_spec = TRUE,
                                 !.match_spec_id = init.id]]))))

sfc_mae_process_encap_header(w, bounce_eh, F) ==
    IF bounce_eh.type = EFX_TUNNEL_PROTOCOL_NONE
    THEN [w |-> w, rc |-> OK, encap_header |-> NULL]
    ELSE
    With(sfc_mae_encap_header_attach(w, bounce_eh),
    LAMBDA att :
    IF att.encap_header # NULL
    THEN [w |-> att.w, rc |-> OK, encap_header |-> att.encap_header]
    ELSE sfc_mae_encap_header_add(w, bounce_eh, F))

\* A variant that lets VXLAN_DECAP through whatever the outer rule is.
decap_allowed_always(w, outer_rule) == TRUE

\* The VXLAN_DECAP case of sfc_mae_rule_parse_action.
DecapAllowed(w, outer_rule) ==
    /\ outer_rule # NULL
    /\ Ent(w.outer_rules, outer_rule).encap_type = "VXLAN"

SpecFini(w) ==
    Call(w, "efx_mae_action_set_spec_fini", "sfc_mae_rule_parse_actions",
         NULL, 0, OK)

sfc_mae_rule_parse_actions(w, spec_mae, actions, verdict, F) ==
    LET spec == ActionSpec(actions)
        n_count == Len(actions.count_ids)
    IN
    With(DevCall(w, "efx_mae_action_set_spec_init",
                 "sfc_mae_rule_parse_actions", NULL, 0, F),
    LAMBDA init :
    IF init.rc # OK
    THEN [w |-> init.w, rc |-> init.rc, spec |-> spec_mae]
    ELSE IF verdict = "bad_action"
    THEN [w |-> SpecFini(init.w), rc |-> "EINVAL", spec |-> spec_mae]
    ELSE IF actions.decap /\ ~DecapAllowed(init.w, spec_mae.outer_rule)
    THEN [w |-> SpecFini(init.w), rc |-> "EINVAL", spec |-> spec_mae]
    ELSE
    With(sfc_mae_process_encap_header(init.w, BounceEh(actions), F),
    LAMBDA eh :
    IF eh.rc # OK
    THEN [w |-> SpecFini(eh.w), rc |-> eh.rc, spec |-> spec_mae]
    ELSE IF n_count > 1
    THEN [w |-> SpecFini(sfc_mae_encap_header_del(eh.w, eh.encap_header)),
          rc |-> "ENOTSUP", spec |-> spec_mae]
    ELSE
    With(sfc_mae_action_set_attach(eh.w, eh.encap_header, n_count, spec),
    LAMBDA att :
    IF att.action_set # NULL
    THEN [w |-> SpecFini(sfc_mae_encap_header_del(att.w, eh.encap_header)),
          rc |-> OK,
          spec |-> [spec_mae EXCEPT !.action_set = att.action_set]]
    ELSE
    With(sfc_mae_action_set_add(eh.w, actions, spec, eh.encap_header,
                                n_count, F),
    LAMBDA add :
    IF add.rc # OK
    THEN [w |-> SpecFini(sfc_mae_encap_header_del(add.w, eh.encap_header)),
          rc |-> add.rc, spec |-> spec_mae]
    ELSE [w |-> add.w, rc |-> OK,
          spec |-> [spec_mae EXCEPT !.action_set = add.action_set]]))))


\* ---------------------------------------------------------- flow lifecycle
sfc_mae_flow_insert(w, spec_mae, F) ==
    LET outer_rule == spec_mae.outer_rule
        action_set == spec_mae.action_set
        fail_action_set_enable(v) ==
            IF outer_rule # NULL
            THEN sfc_mae_outer_rule_disable(v, outer_rule, F).w
            ELSE v
        fail_action_rule_insert(v) ==
            fail_action_set_enable(
                sfc_mae_action_set_disable(v, action_set, F).w)
    IN
    With(IF outer_rule # NULL
         THEN sfc_mae_outer_rule_enable(w, outer_rule, F)
         ELSE [w |-> w, rc |-> OK],
    LAMBDA or :
    IF or.rc # OK
    THEN [w |-> or.w, rc |-> or.rc, spec |-> spec_mae]
    ELSE
    With(sfc_mae_action_set_enable(or.w, action_set, F),
    LAMBDA as :
    IF as.rc # OK
    THEN [w |-> fail_action_set_enable(as.w), rc |-> as.rc,
          spec |-> spec_mae]
    ELSE
    With(IF Ent(as.w.action_sets, action_set).n_counters > 0
         THEN sfc_mae_counter_start(as.w, F)
         ELSE [w |-> as.w, rc |-> OK],
    LAMBDA cs :
    IF cs.rc # OK
    THEN [w |-> fail_action_rule_insert(cs.w), rc |-> cs.rc,
          spec |-> spec_mae]
    ELSE
    With(DevAlloc(cs.w, "rule", "efx_mae_action_rule_insert",
                  "sfc_mae_flow_insert", action_set,
                  Ent(cs.w.action_sets, action_set).fw_refcnt, F),
    LAMBDA ins :
    IF ins.rc # OK
    THEN [w |-> fail_action_rule_insert(ins.w), rc |-> ins.rc,
          spec |-> spec_mae]
    ELSE [w |-> ins.w, rc |-> OK,
          spec |-> [spec_mae EXCEPT !.rule_id = ins.id]]))))

\* A variant that disables the outer rule before the action set.
flow_remove_outer_rule_first(w, spec_mae, F) ==
    LET outer_rule == spec_mae.outer_rule
        action_set == spec_mae.action_set
        spec1 == [spec_mae EXCEPT !.rule_id = EFX_MAE_RSRC_ID_INVALID]
    IN
    With(DevFree(w, "rule", spec_mae.rule_id, "efx_mae_action_rule_remove",
                 "sfc_mae_flow_remove", action_set, 0, F),
    LAMBDA rem :
    IF rem.rc # OK
    THEN [w |-> rem.w, rc |-> rem.rc, spec |-> spec_mae]
    ELSE
    With(IF outer_rule # NULL
         THEN sfc_mae_outer_rule_disable(rem.w, outer_rule, F)
         ELSE [w |-> rem.w, rc |-> OK],
    LAMBDA or :
    [w |-> sfc_mae_action_set_disable(or.w, action_set, F).w, rc |-> or.rc,
     spec |-> spec1]))

\* efx_mae_action_rule_remove: a device free, or the device answers that it
\* holds no such rule any more.
efx_mae_action_rule_remove(w, rule_id, by, ent, F) ==
    IF "efx_mae_action_rule_remove (already removed)" \in F
    THEN [w |-> Call([w EXCEPT !.dev.rule = @ \ {rule_id}],
                     "efx_mae_action_rule_remove", by, ent, 0, "ENOENT"),
          rc |-> "ENOENT"]
    ELSE DevFree(w, "rule", rule_id, "efx_mae_action_rule_remove", by, ent,
                 0, F)

\* A variant that resets the rule id before it knows whether the device
\* removed the rule.
flow_remove_resets_id_first(w, spec_mae, F) ==
    LET outer_rule == spec_mae.outer_rule
        action_set == spec_mae.action_set
        spec1 == [spec_mae EXCEPT !.rule_id = EFX_MAE_RSRC_ID_INVALID]
    IN
    With(efx_mae_action_rule_remove(w, spec_mae.rule_id,
                                    "sfc_mae_flow_remove", action_set, F),
    LAMBDA rem :
    IF rem.rc # OK
    THEN [w |-> rem.w, rc |-> rem.rc, spec |-> spec1]
    ELSE
    With(sfc_mae_action_set_disable(rem.w, action_set, F),
    LAMBDA as :
    IF outer_rule # NULL
    THEN With(sfc_mae_outer_rule_disable(as.w, outer_rule, F),
         LAMBDA or : [w |-> or.w, rc |-> or.rc, spec |-> spec1])
    ELSE [w |-> as.w, rc |-> OK, spec |-> spec1]))

sfc_mae_flow_remove(w, spec_mae, F) ==
    LET outer_rule == spec_mae.outer_rule
        action_set == spec_mae.action_set
        spec1 == [spec_mae EXCEPT !.rule_id = EFX_MAE_RSRC_ID_INVALID]
    IN
    With(efx_mae_action_rule_remove(w, spec_mae.rule_id,
                                    "sfc_mae_flow_remove", action_set, F),
    LAMBDA rem :
    IF rem.rc # OK
    THEN [w |-> rem.w, rc |-> rem.rc, spec |-> spec_mae]
    ELSE
    With(sfc_mae_action_set_disable(rem.w, action_set, F),
    LAMBDA as :
    IF outer_rule # NULL
    THEN With(sfc_mae_outer_rule_disable(as.w, outer_rule, F),
         LAMBDA or : [w |-> or.w, rc |-> or.rc, spec |-> spec1])
    ELSE [w |-> as.w, rc |-> OK, spec |-> spec1]))

sfc_mae_flow_cleanup(w, spec_mae, F) ==
    With(IF spec_mae.outer_rule # NULL
         THEN sfc_mae_outer_rule_del(w, spec_mae.outer_rule)
         ELSE w,
    LAMBDA w1 :
    With(IF spec_mae.action_set # NULL
         THEN sfc_mae_action_set_del(w1, spec_mae.action_set, F)
         ELSE w1,
    LAMBDA w2 :
    [w |-> IF spec_mae.match_spec
           THEN MatchSpecFini(w2, spec_mae.match_spec_id,
                              "sfc_mae_flow_cleanup")
           ELSE w2,
     rc |-> OK, spec |-> NoSpec]))


\* ------------------------------------------------------------ state machine
Flows == 1..MaxFlows

\* Device and allocator calls a handler can see fail.
PatternFaults ==
    {"efx_mae_match_spec_init", "efx_mae_match_spec_init (outer)",
     "rte_zmalloc", "efx_mae_match_spec_outer_rule_id_set"}
ActionsFaults == {"efx_mae_action_set_spec_init", "rte_zmalloc"}
InsertFaults ==
    {"efx_mae_outer_rule_insert", "efx_mae_match_spec_outer_rule_id_set",
     "efx_mae_outer_rule_remove", "efx_mae_encap_header_alloc",
     "efx_mae_action_set_fill_in_eh_id", "efx_mae_encap_header_free",
     "efx_mae_counters_alloc", "counter id out of range",
     "efx_mae_action_set_fill_in_counter_id", "efx_mae_counters_free",
     "efx_mae_action_set_alloc", "efx_mae_action_set_free",
     "efx_mae_counters_stream_start", "sfc_mae_counter_service_register",
     "efx_mae_action_rule_insert"}
RemoveFaults ==
    {"efx_mae_action_rule_remove",
     "efx_mae_action_rule_remove (already removed)",
     "efx_mae_action_set_free",
     "efx_mae_counters_free", "efx_mae_encap_header_free",
     "efx_mae_outer_rule_remove"}
CleanupFaults == {"efx_mae_counters_free"}

\* The subsets of S of at most k members.
RECURSIVE SubsetsUpTo(_, _)
SubsetsUpTo(S, k) ==
    IF k = 0 THEN {{}}
    ELSE {t \cup x : t \in SubsetsUpTo(S, k - 1),
                     x \in {{}} \cup {{s} : s \in S}}

FaultSets(points) == SubsetsUpTo(points, MaxFaults - faults)

\* The calls of the handler that failed: those the input made fail, and
\* those the device refuses on its own (a free of an id it does not hold, a
\* counter id beyond the limit).
Failed(calls) ==
    {k \in 1..Len(calls) :
        \/ calls[k].rc # OK
        \/ /\ calls[k].fn = "efx_mae_counters_alloc"
           /\ calls[k].ent = NCounters}

\* The handler's result becomes the adapter's state.
Commit(op, f, r, arg) ==
    /\ outer_rules' = r.w.outer_rules
    /\ encap_headers' = r.w.encap_headers
    /\ action_sets' = r.w.action_sets
    /\ internal_rules' = r.w.internal_rules
    /\ repr_ports' = r.w.repr_ports
    /\ counters' = r.w.counters
    /\ xstats' = r.w.xstats
    /\ counter_rxq_running' = r.w.counter_rxq_running
    /\ counter_registry' = r.w.counter_registry
    /\ dev' = r.w.dev
    /\ faults' = faults + Cardinality(Failed(r.w.calls))
    /\ faults' <= MaxFaults
    /\ pc' = pc
    /\ last' = [op |-> op, flow |-> f, rc |-> r.rc, calls |-> r.w.calls,
                arg |-> arg]

Init ==
    /\ outer_rules = <<>>
    /\ encap_headers = <<>>
    /\ action_sets = <<>>
    /\ internal_rules = [e \in 1..SFC_MAE_NB_RULES_MAX |-> NoRule]
    /\ repr_ports = [p \in 1..MaxPorts |->
                        [started |-> FALSE, mae_rule |-> NULL]]
    /\ counters = [c \in 0..(NCounters - 1) |->
                      [inuse |-> FALSE, generation_count |-> 0,
                       value |-> [pkts |-> 0, bytes |-> 0],
                       reset |-> [pkts |-> 0, bytes |-> 0]]]
    /\ xstats = [not_inuse_update |-> 0, realloc_update |-> 0]
    /\ counter_rxq_running = FALSE
    /\ counter_registry = [pushed_n_buffers |-> 0, use_credits |-> FALSE]
    /\ dev = [outer |-> {}, eh |-> {}, aset |-> {}, rule |-> {},
              counter |-> {}, gen |-> 0, mspec |-> {},
              uses_credits |-> TRUE, pushed |-> 0, pushed_total |-> 0,
              credits |-> 0]
    /\ flows = [f \in Flows |-> NoSpec]
    /\ counter_ids = [k \in 1..MaxCids |->
                         [mae_id |-> EFX_MAE_RSRC_ID_INVALID, rte_id |-> k]]
    /\ faults = 0
    /\ pc = [telemetry |-> [at |-> "idle"],
             control |-> [at |-> "idle", held |-> FALSE]]
    /\ last = [op |-> "init", flow |-> NULL, rc |-> OK, calls |-> <<>>,
               arg |-> "none"]

\* A compilation runs under one hold of the adapter lock: while a flow is
\* between its pattern and its actions, or waits for the cleanup that follows
\* a failed compilation, no handler runs for another flow.
Compiling(f) == flows[f].stage \in {"PATTERN", "FAILED"}

Quiet(f) == \A g \in Flows \ {f} : ~Compiling(g)

\* A new rte_flow takes the lowest free slot.
ParsePattern(f, pattern, verdict, F) ==
    /\ Quiet(f)
    /\ flows[f].stage = "UNBOUND"
    /\ \A g \in 1..(f - 1) : flows[g].stage # "UNBOUND"
    /\ \E r \in {sfc_mae_rule_parse_pattern(World, flows[f], pattern, verdict,
                                            F)} :
          /\ flows' = [flows EXCEPT ![f] =
                 [r.spec EXCEPT !.stage = IF r.rc = OK THEN "PATTERN"
                                          ELSE "FAILED",
                                !.pattern = IF r.rc = OK THEN pattern
                                            ELSE "none"]]
          /\ Commit("parse_pattern", f, r, verdict)
    /\ UNCHANGED counter_ids

ParseActions(f, actions, verdict, F) ==
    /\ flows[f].stage = "PATTERN"
    /\ \E r \in {sfc_mae_rule_parse_actions(World, flows[f], actions, verdict,
                                            F)} :
          /\ flows' = [flows EXCEPT ![f] =
                 [r.spec EXCEPT !.stage = IF r.rc = OK THEN "COMPILED"
                                          ELSE "FAILED",
                                !.actions = IF r.rc = OK THEN actions
                                            ELSE "none",
                                !.pattern = IF r.rc = OK THEN @
                                            ELSE "none"]]
          /\ Commit("parse_actions", f, r, verdict)
    /\ UNCHANGED counter_ids

FlowInsert(f, F) ==
    /\ Quiet(f)
    /\ flows[f].stage = "COMPILED"
    /\ flows[f].rule_id = EFX_MAE_RSRC_ID_INVALID
    /\ flows[f].action_set # NULL
    /\ \E r \in {sfc_mae_flow_insert(World, flows[f], F)} :
          /\ flows' = [flows EXCEPT ![f] = r.spec]
          /\ Commit("insert", f, r, "none")
    /\ UNCHANGED counter_ids

FlowRemove(f, F) ==
    /\ Quiet(f)
    /\ flows[f].stage = "COMPILED"
    /\ flows[f].rule_id # EFX_MAE_RSRC_ID_INVALID
    /\ flows[f].action_set # NULL
    /\ \E r \in {sfc_mae_flow_remove(World, flows[f], F)} :
          /\ flows' = [flows EXCEPT ![f] = r.spec]
          /\ Commit("remove", f, r, "none")
    /\ UNCHANGED counter_ids

FlowCleanup(f, F) ==
    /\ Quiet(f)
    /\ flows[f].stage # "UNBOUND"
    /\ flows[f].rule_id = EFX_MAE_RSRC_ID_INVALID
    /\ \E r \in {sfc_mae_flow_cleanup(World, flows[f], F)} :
          /\ flows' = [flows EXCEPT ![f] = r.spec]
          /\ Commit("cleanup", f, r, "none")
    /\ UNCHANGED counter_ids

Next ==
    \/ \E f \in Flows, p \in Patterns, v \in PatternVerdicts,
          F \in FaultSets(PatternFaults) : ParsePattern(f, p, v, F)
    \/ \E f \in Flows, a \in ActionLists, v \in ActionVerdicts,
          F \in FaultSets(ActionsFaults) : ParseActions(f, a, v, F)
    \/ \E f \in Flows, F \in FaultSets(InsertFaults) : FlowInsert(f, F)
    \/ \E f \in Flows, F \in FaultSets(RemoveFaults) : FlowRemove(f, F)
    \/ \E f \in Flows, F \in FaultSets(CleanupFaults) : FlowCleanup(f, F)

Spec == Init /\ [][Next]_vars

\* ------------------------------------------- counter slots and telemetry
\* The counter registry on its own: the control path adds and deletes a
\* counter id, the device's counter stream moves to the next generation, and
\* the telemetry path delivers the records of the stream, late ones included.
CounterFaults ==
    {"efx_mae_counters_alloc", "counter id out of range",
     "efx_mae_counters_free"}

CounterAdd(k, F) ==
    /\ \E r \in {sfc_mae_counter_add(World, counter_ids[k], F)} :
          /\ counter_ids' = [counter_ids EXCEPT ![k] = r.counter]
          /\ Commit("counter_add", k, r, counter_ids[k])
    /\ UNCHANGED flows

CounterDel(k, F) ==
    /\ Commit("counter_del", k, sfc_mae_counter_del(World, counter_ids[k], F),
              counter_ids[k])
    /\ UNCHANGED <<flows, counter_ids>>

GenerationAdvance ==
    /\ dev.gen < MaxGen
    /\ dev' = [dev EXCEPT !.gen = @ + 1]
    /\ last' = [op |-> "generation", flow |-> NULL, rc |-> OK,
                calls |-> <<>>, arg |-> "none"]
    /\ UNCHANGED <<outer_rules, encap_headers, action_sets, internal_rules,
                   repr_ports, counters, xstats,
                   counter_rxq_running, counter_registry, flows, counter_ids,
                   faults, pc>>

CounterIncrement(mae_counter_id, generation_count, pkts, bytes) ==
    /\ \E w \in {sfc_mae_counter_increment(World, mae_counter_id,
                                           generation_count, pkts, bytes)} :
          /\ w.counters[mae_counter_id].value.pkts <= MaxValue
          /\ w.counters[mae_counter_id].value.bytes <= MaxValue
          /\ w.xstats.not_inuse_update <= MaxXstat
          /\ w.xstats.realloc_update <= MaxXstat
          /\ Commit("increment", NULL, [w |-> w, rc |-> OK],
                    [mae_counter_id |-> mae_counter_id,
                     generation_count |-> generation_count,
                     pkts |-> pkts, bytes |-> bytes])
    /\ UNCHANGED <<flows, counter_ids>>

\* A query of a counter id that has been allocated (the id is not reset
\* when the counter is deleted, so the slot may be out of use).
CounterGet(k, reset) ==
    /\ counter_ids[k].mae_id < NCounters
    /\ \E r \in {sfc_mae_counter_get(World, counter_ids[k], reset)} :
          Commit("counter_get", k, r,
                 [mae_counter_id |-> counter_ids[k].mae_id, reset |-> reset,
                  hits |-> r.data.hits, bytes |-> r.data.bytes])
    /\ UNCHANGED <<flows, counter_ids>>

NextCnt ==
    \/ \E k \in 1..MaxCids, F \in FaultSets(CounterFaults) : CounterAdd(k, F)
    \/ \E k \in 1..MaxCids, F \in FaultSets(CounterFaults) : CounterDel(k, F)
    \/ \E k \in 1..MaxCids, reset \in BOOLEAN : CounterGet(k, reset)
    \/ GenerationAdvance
    \/ \E c \in 0..(NCounters - 1), g \in 0..MaxGen, pk \in 0..MaxDelta,
          b \in 0..MaxDelta : CounterIncrement(c, g, pk, b)

SpecCnt == Init /\ [][NextCnt]_vars

\* ----------------------------------------------- the counter stream
\* A packet of the stream with its records in place: n records for counter
\* c, each of one packet and one byte, sent at generation g.
Packet(c, g, n) ==
    [nb_segs |-> 1,
     data_len |-> ER_RX_SL_PACKETISER_HEADER_WORD_SIZE
                      + n * ER_RX_SL_PACKETISER_PAYLOAD_WORD_SIZE,
     generation_count |-> g,
     version |-> ERF_SC_PACKETISER_HEADER_VERSION_VALUE,
     id |-> ERF_SC_PACKETISER_HEADER_IDENTIFIER_AR,
     header_offset |-> ERF_SC_PACKETISER_HEADER_HEADER_OFFSET_DEFAULT,
     payload_offset |-> ER_RX_SL_PACKETISER_HEADER_WORD_SIZE,
     counter_count |-> n,
     data |-> [i \in 1..n |-> [counter_index |-> c, pkts |-> 1, bytes |-> 1]]]

\* The ways a packet of the stream can be damaged.
Damaged(m) ==
    {[m EXCEPT !.nb_segs = 2],
     [m EXCEPT !.data_len = ER_RX_SL_PACKETISER_HEADER_WORD_SIZE - 1,
               !.counter_count = 0, !.data = <<>>],
     [m EXCEPT !.version = ERF_SC_PACKETISER_HEADER_VERSION_VALUE + 1],
     [m EXCEPT !.id = ERF_SC_PACKETISER_HEADER_IDENTIFIER_AR + 1],
     [m EXCEPT !.header_offset =
                   ERF_SC_PACKETISER_HEADER_HEADER_OFFSET_DEFAULT + 1],
     [m EXCEPT !.counter_count = @ + 1],
     [m EXCEPT !.payload_offset = @ + 2, !.data_len = @ + 2]}

SoundPackets ==
    {Packet(c, g, MaxRecords) : c \in 0..(NCounters - 1), g \in 0..MaxGen}

DamagedPackets == Damaged(Packet(0, MaxGen, MaxRecords))

\* The bursts the Rx queue hands over: none, one packet, or a damaged
\* packet between two sound ones.
Bursts ==
    {<<>>} \cup {<<m>> : m \in SoundPackets \cup DamagedPackets}
          \cup {<<a, d, b>> : a \in SoundPackets, d \in DamagedPackets,
                              b \in SoundPackets}

\* One run of the service routine over the burst the Rx queue hands it.
CounterRoutine(mbufs, F) ==
    /\ \E w \in {sfc_mae_counter_routine(World, mbufs, F)} :
          /\ \A c \in 0..(NCounters - 1) :
                /\ w.counters[c].value.pkts <= MaxValue
                /\ w.counters[c].value.bytes <= MaxValue
          /\ w.xstats.not_inuse_update <= MaxXstat
          /\ w.xstats.realloc_update <= MaxXstat
          /\ Commit("routine", NULL, [w |-> w, rc |-> OK], mbufs)
    /\ UNCHANGED <<flows, counter_ids>>

NextPkt ==
    \/ \E k \in 1..MaxCids : CounterAdd(k, {})
    \/ \E k \in 1..MaxCids : CounterDel(k, {})
    \/ GenerationAdvance
    \/ \E mbufs \in Bursts : CounterRoutine(mbufs, {})

SpecPkt == Init /\ [][NextPkt]_vars

\* ------------------------------------------------- credits of the stream
MaxPushed == 10     \* buffers the Rx datapath pushes to the counter queue
MaxRefill == 2      \* buffers of one refill
RxDescCount == 4    \* buffers the queue holds beyond those given credits for

\* sfc_mae_counter_start on its own.
CounterStart(F) ==
    /\ \E r \in {sfc_mae_counter_start(World, F)} :
          Commit("counter_start", NULL, r, "none")
    /\ UNCHANGED <<flows, counter_ids>>

\* The Rx datapath refills the counter queue: sfc_rx_get_pushed grows by the
\* buffers pushed; pushed_total is the count without the wrap-around.
RxRefill(n) ==
    /\ dev.pushed_total + n <= MaxPushed
    /\ dev.pushed_total + n - dev.credits <= RxDescCount
    /\ dev' = [dev EXCEPT !.pushed = (@ + n) % UINT_RANGE,
                          !.pushed_total = @ + n]
    /\ last' = [op |-> "rx_refill", flow |-> NULL, rc |-> OK,
                calls |-> <<>>, arg |-> n]
    /\ UNCHANGED <<outer_rules, encap_headers, action_sets, internal_rules,
                   repr_ports, counters, xstats,
                   counter_rxq_running, counter_registry, flows, counter_ids,
                   faults, pc>>

CreditFaults ==
    {"efx_mae_counters_stream_give_credits",
     "efx_mae_counters_stream_start"}

NextCred ==
    \/ \E F \in FaultSets(CreditFaults) : CounterStart(F)
    \/ \E n \in 1..MaxRefill : RxRefill(n)
    \/ \E mbufs \in {<<>>, <<Packet(0, 0, MaxRecords)>>},
          F \in FaultSets(CreditFaults) : CounterRoutine(mbufs, F)

SpecCred == Init /\ [][NextCred]_vars

\* ------------------------------------- counter slots, one access at a time
\* The control thread (sfc_mae_counter_add and sfc_mae_counter_del on the one
\* counter id of an action set) and the telemetry thread
\* (sfc_mae_counter_increment on the records of the counter stream) run
\* without a common lock: each step below is one access to the slot.
Step(op, arg) ==
    /\ last' = [op |-> op, flow |-> NULL, rc |-> OK, calls |-> <<>>,
                arg |-> arg]
    /\ UNCHANGED <<outer_rules, encap_headers, action_sets, internal_rules,
                   repr_ports,
                   counter_rxq_running, counter_registry, flows, faults>>

\* sfc_mae_counter_add: efx_mae_counters_alloc and the range check.
AddAlloc(k) ==
    /\ pc.control.at = "idle" /\ ~pc.control.held
    /\ DevCounterFree(World) # {}
    /\ LET id == CHOOSE c \in DevCounterFree(World) :
                     \A d \in DevCounterFree(World) : c <= d
       IN /\ dev' = [dev EXCEPT !.counter = @ \cup {id}]
          /\ pc' = [pc EXCEPT !.control =
                       [at |-> "add_reset", held |-> FALSE, k |-> k,
                        id |-> id, generation_count |-> dev.gen]]
    /\ UNCHANGED <<counters, xstats, counter_ids>>
    /\ Step("add_alloc", k)

\* A variant of the add that leaves the baseline of the slot as it finds it.
add_keeps_baseline ==
    /\ pc.control.at = "add_reset"
    /\ counter_ids' = [counter_ids EXCEPT ![pc.control.k].mae_id =
                                             pc.control.id]
    /\ pc' = [pc EXCEPT !.control.at = "add_generation"]
    /\ UNCHANGED <<counters, dev, xstats>>
    /\ Step("add_reset", pc.control.id)

\* counterp->mae_id = mae_counter; reset = value.
AddReset ==
    /\ pc.control.at = "add_reset"
    /\ counter_ids' = [counter_ids EXCEPT ![pc.control.k].mae_id =
                                             pc.control.id]
    /\ counters' = [counters EXCEPT ![pc.control.id].reset =
                                       counters[pc.control.id].value]
    /\ pc' = [pc EXCEPT !.control.at = "add_generation"]
    /\ UNCHANGED <<dev, xstats>>
    /\ Step("add_reset", pc.control.id)

\* p->generation_count = generation_count.
AddGeneration ==
    /\ pc.control.at = "add_generation"
    /\ counters' = [counters EXCEPT ![pc.control.id].generation_count =
                                       pc.control.generation_count]
    /\ pc' = [pc EXCEPT !.control.at = "add_inuse"]
    /\ UNCHANGED <<dev, xstats, counter_ids>>
    /\ Step("add_generation", pc.control.id)

\* The release store inuse = true that ends the add.
AddInuse ==
    /\ pc.control.at = "add_inuse"
    /\ counters' = [counters EXCEPT ![pc.control.id].inuse = TRUE]
    /\ pc' = [pc EXCEPT !.control = [at |-> "idle", held |-> TRUE]]
    /\ UNCHANGED <<dev, xstats, counter_ids>>
    /\ Step("add_inuse", pc.control.id)

\* sfc_mae_counter_del: the release store inuse = false that begins it.
DelInuse(k) ==
    /\ pc.control.at = "idle" /\ pc.control.held
    /\ counters' = [counters EXCEPT ![counter_ids[k].mae_id].inuse = FALSE]
    /\ pc' = [pc EXCEPT !.control = [at |-> "del_free", held |-> TRUE,
                                     k |-> k]]
    /\ UNCHANGED <<dev, xstats, counter_ids>>
    /\ Step("del_inuse", counter_ids[k].mae_id)

\* efx_mae_counters_free.
DelFree ==
    /\ pc.control.at = "del_free"
    /\ dev' = [dev EXCEPT !.counter = @ \ {counter_ids[pc.control.k].mae_id}]
    /\ pc' = [pc EXCEPT !.control = [at |-> "idle", held |-> FALSE]]
    /\ UNCHANGED <<counters, xstats, counter_ids>>
    /\ Step("del_free", counter_ids[pc.control.k].mae_id)

\* sfc_mae_counter_increment: the acquire load of inuse.
IncrementLoadInuse(mae_counter_id, generation_count, pkts, bytes) ==
    /\ pc.telemetry.at = "idle"
    /\ generation_count <= dev.gen
    /\ IF counters[mae_counter_id].inuse
       THEN /\ pc' = [pc EXCEPT !.telemetry =
                         [at |-> "generation",
                          mae_counter_id |-> mae_counter_id,
                          generation_count |-> generation_count,
                          pkts |-> pkts, bytes |-> bytes]]
            /\ UNCHANGED xstats
       ELSE /\ xstats.not_inuse_update < MaxXstat
            /\ xstats' = [xstats EXCEPT !.not_inuse_update = @ + 1]
            /\ UNCHANGED pc
    /\ UNCHANGED <<counters, dev, counter_ids>>
    /\ Step("increment_inuse", mae_counter_id)

\* The comparison with p->generation_count.
IncrementGeneration ==
    /\ pc.telemetry.at = "generation"
    /\ IF pc.telemetry.generation_count
             < counters[pc.telemetry.mae_counter_id].generation_count
       THEN /\ xstats.realloc_update < MaxXstat
            /\ xstats' = [xstats EXCEPT !.realloc_update = @ + 1]
            /\ pc' = [pc EXCEPT !.telemetry = [at |-> "idle"]]
       ELSE /\ pc' = [pc EXCEPT !.telemetry.at = "value"]
            /\ UNCHANGED xstats
    /\ UNCHANGED <<counters, dev, counter_ids>>
    /\ Step("increment_generation", pc.telemetry.mae_counter_id)

\* cnt_val = p->value + the deltas.
IncrementValueUpTo(cap) ==
    /\ pc.telemetry.at = "value"
    /\ LET p == counters[pc.telemetry.mae_counter_id]
           cnt_val == [pkts |-> p.value.pkts + pc.telemetry.pkts,
                       bytes |-> p.value.bytes + pc.telemetry.bytes]
       IN /\ cnt_val.pkts <= cap /\ cnt_val.bytes <= cap
          /\ pc' = [pc EXCEPT !.telemetry =
                       [at |-> "store",
                        mae_counter_id |-> pc.telemetry.mae_counter_id,
                        generation_count |-> pc.telemetry.generation_count,
                        pkts |-> pc.telemetry.pkts,
                        bytes |-> pc.telemetry.bytes,
                        cnt_val |-> cnt_val]]
    /\ UNCHANGED <<counters, xstats, dev, counter_ids>>
    /\ Step("increment_value", pc.telemetry.mae_counter_id)

\* The store of cnt_val to p->value.
IncrementStore ==
    /\ pc.telemetry.at = "store"
    /\ counters' = [counters EXCEPT ![pc.telemetry.mae_counter_id].value =
                                       pc.telemetry.cnt_val]
    /\ pc' = [pc EXCEPT !.telemetry = [at |-> "idle"]]
    /\ UNCHANGED <<xstats, dev, counter_ids>>
    /\ Step("increment_store",
            [mae_counter_id |-> pc.telemetry.mae_counter_id,
             generation_count |-> pc.telemetry.generation_count])

NextRace ==
    \/ \E k \in 1..MaxCids : AddAlloc(k)
    \/ AddReset
    \/ AddGeneration
    \/ AddInuse
    \/ \E k \in 1..MaxCids : DelInuse(k)
    \/ DelFree
    \/ GenerationAdvance
    \/ \E c \in 0..(NCounters - 1), g \in 0..MaxGen, pk \in 0..MaxDelta,
          b \in 0..MaxDelta : IncrementLoadInuse(c, g, pk, b)
    \/ IncrementGeneration
    \/ IncrementValueUpTo(MaxValue)
    \/ IncrementStore

SpecRace == Init /\ [][NextRace]_vars

\* --------------------------------------- queries beside the counter stream
\* sfc_mae_counter_get runs on the control thread while the telemetry thread
\* applies updates. The control thread also keeps what the reset queries of
\* the counter have returned since it was added, the baseline the add left,
\* and the value the last reset query read.
NoCount == [pkts |-> 0, bytes |-> 0]

MaxQueried == 3     \* cap of the accumulated packets / bytes beside queries

QueryHistory(c, id) ==
    IF "returned" \in DOMAIN c
    THEN [returned |-> c.returned, base |-> c.base, read |-> c.read]
    ELSE [returned |-> NoCount, base |-> counters[id].reset,
          read |-> counters[id].reset]

\* sfc_mae_counter_get: the load of p->value.
GetLoadValue(k, reset) ==
    /\ pc.control.at = "idle" /\ pc.control.held
    /\ LET id == counter_ids[k].mae_id
       IN pc' = [pc EXCEPT !.control =
                    [at |-> "get_data", held |-> TRUE, k |-> k,
                     reset |-> reset, value |-> counters[id].value]
                    @@ QueryHistory(pc.control, id)]
    /\ UNCHANGED <<counters, dev, xstats, counter_ids>>
    /\ Step("get_load", counter_ids[k].mae_id)

\* A variant whose reset also clears the accumulated value.
get_data_clears_value ==
    /\ pc.control.at = "get_data"
    /\ LET id == counter_ids[pc.control.k].mae_id
           p == counters[id]
           value == pc.control.value
           data == [pkts |-> value.pkts - p.reset.pkts,
                    bytes |-> value.bytes - p.reset.bytes]
       IN /\ counters' = IF pc.control.reset
                         THEN [counters EXCEPT ![id].value = NoCount,
                                               ![id].reset = NoCount]
                         ELSE counters
          /\ pc' = [pc EXCEPT !.control =
                       [at |-> "idle", held |-> TRUE,
                        returned |->
                            IF pc.control.reset
                            THEN [pkts |-> pc.control.returned.pkts
                                              + data.pkts,
                                  bytes |-> pc.control.returned.bytes
                                               + data.bytes]
                            ELSE pc.control.returned,
                        base |-> pc.control.base,
                        read |-> IF pc.control.reset THEN value
                                 ELSE pc.control.read]]
          /\ Step("get_data",
                  [mae_counter_id |-> id, reset |-> pc.control.reset,
                   hits |-> data.pkts, bytes |-> data.bytes])
    /\ UNCHANGED <<dev, xstats, counter_ids>>

\* data->hits and data->bytes from the loaded value and the baseline, and
\* the baseline moved to the loaded value when data->reset is set.
GetData ==
    /\ pc.control.at = "get_data"
    /\ LET id == counter_ids[pc.control.k].mae_id
           p == counters[id]
           value == pc.control.value
           data == [pkts |-> value.pkts - p.reset.pkts,
                    bytes |-> value.bytes - p.reset.bytes]
       IN /\ counters' = IF pc.control.reset
                         THEN [counters EXCEPT ![id].reset = value]
                         ELSE counters
          /\ pc' = [pc EXCEPT !.control =
                       [at |-> "idle", held |-> TRUE,
                        returned |->
                            IF pc.control.reset
                            THEN [pkts |-> pc.control.returned.pkts
                                              + data.pkts,
                                  bytes |-> pc.control.returned.bytes
                                               + data.bytes]
                            ELSE pc.control.returned,
                        base |-> pc.control.base,
                        read |-> IF pc.control.reset THEN value
                                 ELSE pc.control.read]]
          /\ Step("get_data",
                  [mae_counter_id |-> id, reset |-> pc.control.reset,
                   hits |-> data.pkts, bytes |-> data.bytes])
    /\ UNCHANGED <<dev, xstats, counter_ids>>

NextQry ==
    \/ \E k \in 1..MaxCids : AddAlloc(k)
    \/ AddReset
    \/ AddGeneration
    \/ AddInuse
    \/ \E k \in 1..MaxCids : DelInuse(k)
    \/ DelFree
    \/ \E k \in 1..MaxCids, reset \in BOOLEAN : GetLoadValue(k, reset)
    \/ GetData
    \/ \E c \in 0..(NCounters - 1), g \in 0..MaxGen, pk \in 0..MaxDelta,
          b \in 0..MaxDelta : IncrementLoadInuse(c, g, pk, b)
    \/ IncrementGeneration
    \/ IncrementValueUpTo(MaxQueried)
    \/ IncrementStore

SpecQry == Init /\ [][NextQry]_vars

\* ---------------------------------------------------- pattern compilation
\* The specification of the item parsers: one flow is compiled from a pattern
\* given item by item and from an action list, and cleaned up; no device call
\* fails.
ItemOf(type, spec_set, mask_set, spec, mask) ==
    [type |-> type, spec_set |-> spec_set, mask_set |-> mask_set,
     spec |-> spec, mask |-> mask]

\* An item without spec and mask.
Bare(type) ==
    ItemOf(type, FALSE, FALSE, [n \in DOMAIN rte_flow_item_mask[type] |->
                                   Zero(Len(rte_flow_item_mask[type][n]))],
           rte_flow_item_mask[type])

\* An item with the given fields in its spec and the given mask fields, the
\* other fields being zero in both.
Given(type, spec, mask) ==
    ItemOf(type, TRUE, TRUE, spec @@ Bare(type).spec,
           mask @@ Bare(type).spec)

\* An item with the given spec fields and no mask of its own.
DefaultMasked(type, spec) ==
    ItemOf(type, TRUE, FALSE, spec @@ Bare(type).spec,
           rte_flow_item_mask[type])

Eth(type, mask) == Given("ETH", [type |-> RTE_BE16(type)], [type |-> mask])
Vlan(tci, inner_type, mask) ==
    Given("VLAN", [tci |-> RTE_BE16(tci), inner_type |-> RTE_BE16(inner_type)],
          [tci |-> <<15, 255>>, inner_type |-> mask])
Ipv4(proto, mask) ==
    Given("IPV4", [next_proto_id |-> <<proto>>],
          [next_proto_id |-> <<mask>>])
Ipv6(proto, mask) ==
    Given("IPV6", [proto |-> <<proto>>], [proto |-> <<mask>>])
Tcp(dst_port) ==
    Given("TCP", [dst_port |-> RTE_BE16(dst_port)], [dst_port |-> Ones(2)])
Udp(dst_port) ==
    Given("UDP", [dst_port |-> RTE_BE16(dst_port)], [dst_port |-> Ones(2)])
Tunnel(type, vni) == DefaultMasked(type, [vni |-> vni])

Vni123456 == <<18, 52, 86>>     \* 0x12, 0x34, 0x56

EthItems ==
    {Bare("ETH"), Eth(0, Zero(2)), Eth(RTE_ETHER_TYPE_IPV4, Ones(2)),
     Eth(RTE_ETHER_TYPE_IPV6, Ones(2)), Eth(RTE_ETHER_TYPE_VLAN, Ones(2)),
     Eth(RTE_ETHER_TYPE_QINQ, Ones(2)),
     Eth(RTE_ETHER_TYPE_IPV4, <<255, 0>>)}

VlanItems ==
    {DefaultMasked("VLAN", [tci |-> RTE_BE16(5)]),
     Vlan(5, RTE_ETHER_TYPE_IPV4, Ones(2)),
     Vlan(5, RTE_ETHER_TYPE_IPV6, Ones(2)),
     Vlan(5, RTE_ETHER_TYPE_VLAN, Ones(2))}

L3Items ==
    {Bare("IPV4"), Ipv4(0, 0), Ipv4(IPPROTO_TCP, 255),
     Ipv4(IPPROTO_UDP, 255), Ipv4(IPPROTO_TCP, 15), Ipv4(IPPROTO_UDP, 0),
     Bare("IPV6"), Ipv6(IPPROTO_UDP, 255), Ipv6(IPPROTO_TCP, 255),
     Ipv6(IPPROTO_TCP, 240)}

L4Items == {Bare("TCP"), Tcp(80), Bare("UDP"), Udp(80)}

TunnelHeads ==
    {Tunnel("VXLAN", Vni123456), Bare("VXLAN"), Tunnel("GENEVE", Vni123456),
     Tunnel("NVGRE", Vni123456)}

\* The L2 items of a frame.
L2Chains ==
    {<<>>}
    \cup {<<e>> : e \in EthItems}
    \cup {<<e, v>> : e \in EthItems, v \in VlanItems}
    \cup {<<Eth(tpid, Ones(2)), v>> :
             tpid \in {RTE_ETHER_TYPE_QINQ1, RTE_ETHER_TYPE_QINQ2,
                       RTE_ETHER_TYPE_QINQ3},
             v \in VlanItems}
    \cup {<<e, v, u>> : e \in {Bare("ETH"), Eth(RTE_ETHER_TYPE_VLAN, Ones(2)),
                              Eth(RTE_ETHER_TYPE_QINQ, Ones(2))},
                        v \in VlanItems, u \in VlanItems}
    \cup {<<Eth(RTE_ETHER_TYPE_QINQ, Ones(2)),
            Vlan(5, RTE_ETHER_TYPE_VLAN, Ones(2)),
            Vlan(5, RTE_ETHER_TYPE_VLAN, Ones(2)),
            DefaultMasked("VLAN", [tci |-> RTE_BE16(5)])>>}

\* The L3 and L4 items of a frame.
UpperChains ==
    {<<>>}
    \cup {<<n>> : n \in L3Items}
    \cup {<<n, t>> : n \in L3Items, t \in L4Items}

PlainPatterns == {l2 \o up : l2 \in L2Chains, up \in UpperChains}

\* Patterns with a tunnel item: the outer frame, the tunnel item and the
\* inner frame; among them items out of order and a second tunnel item.
TunnelPatterns ==
    {l2 \o up \o <<t>> \o inner :
        l2 \in {<<Bare("ETH")>>, <<Eth(RTE_ETHER_TYPE_IPV4, Ones(2))>>,
                <<Bare("ETH"), DefaultMasked("VLAN",
                                   [tci |-> RTE_BE16(5)])>>,
                <<Eth(RTE_ETHER_TYPE_VLAN, Ones(2)),
                  DefaultMasked("VLAN", [tci |-> RTE_BE16(5)])>>},
        up \in {<<n>> \o l4 :
                   n \in {Bare("IPV4"), Bare("IPV6"),
                          Ipv4(IPPROTO_UDP, 255), Ipv4(IPPROTO_TCP, 255)},
                   l4 \in {<<>>, <<Bare("UDP")>>, <<Bare("TCP")>>}},
        t \in TunnelHeads,
        inner \in {<<>>, <<Bare("ETH")>>,
                   <<Bare("ETH"), Ipv4(IPPROTO_TCP, 255), Tcp(80)>>,
                   <<Bare("ETH"), Bare("IPV4"), Bare("UDP"),
                     Bare("VXLAN")>>}}

\* Items whose mask reaches a field the item parser does not support, and an
\* item with a mask and no spec.
OddPatterns ==
    {<<Given("ETH", [type |-> RTE_BE16(RTE_ETHER_TYPE_IPV4)],
             [type |-> Ones(2), other |-> Ones(1)]), Bare("IPV4")>>,
     <<Bare("ETH"), Given("IPV4", [next_proto_id |-> <<IPPROTO_TCP>>],
                          [next_proto_id |-> <<255>>, other |-> <<1>>])>>,
     <<Bare("ETH"), ItemOf("IPV4", FALSE, TRUE, Bare("IPV4").spec,
                           Bare("IPV4").spec)>>,
     <<Bare("ETH"), Given("IPV6", [vtc_flow |-> <<0, 16, 0, 0>>],
                          [vtc_flow |-> vtc_flow_be]), Bare("TCP")>>,
     <<Bare("ETH"), Given("IPV6", [vtc_flow |-> <<0, 16, 0, 0>>],
                          [vtc_flow |-> Ones(4)])>>,
     <<Bare("ETH"), Bare("TCP")>>,
     <<Bare("ETH"), [Bare("ETH") EXCEPT !.type = "VOID"]>>}

ItemPatterns == PlainPatterns \cup TunnelPatterns \cup OddPatterns

\* sa->mae: the tunnel types and outer rule priorities of the adapter.
MaeAll ==
    [encap_types_supported |-> TunnelItems, nb_outer_rule_prios_max |-> 1]

MaeLimits ==
    {MaeAll,
     [encap_types_supported |-> {"GENEVE"}, nb_outer_rule_prios_max |-> 1],
     [encap_types_supported |-> TunnelItems, nb_outer_rule_prios_max |-> 0]}

\* What the device's validity checks say of the match specifications.
SpecVerdicts == {"ok", "outer_invalid", "action_invalid"}

CompileInputs ==
    {[mae |-> MaeAll, pattern |-> p, verdict |-> "ok"] : p \in ItemPatterns}
    \cup {[mae |-> m, pattern |-> p, verdict |-> v] :
             m \in MaeLimits, v \in SpecVerdicts,
             p \in {q \in TunnelPatterns :
                       /\ Len(q) = 4
                       /\ q[1] = Bare("ETH")
                       /\ q[2] = Bare("IPV4")}}

\* The pattern as sfc_mae_rule_process_outer sees it in the parse context.
Rendered(ctx) ==
    [encap_type |-> ctx.encap_type,
     outer |-> IF ctx.outer_set THEN ctx.match_spec_outer ELSE "none"]

\* The patterns a flow is compiled from while another flow is kept.
SecondInputs ==
    {[mae |-> MaeAll, pattern |-> p, verdict |-> "ok"] :
        p \in {<<Bare("ETH"), Ipv4(6, 255), Tcp(80)>>} \cup
              {<<Bare("ETH"), Bare("IPV4"), Bare("UDP"), t>> :
                  t \in {Bare("VXLAN"), Tunnel("GENEVE", Vni123456)}} \cup
              {<<Bare("ETH"), Bare("IPV4"), Tunnel("NVGRE", Vni123456)>>}}

\* Where the compilation of the items stops: in the lookahead, which leaves
\* no OUTER specification behind, or in an item parser or the resolution of
\* the deferred fields.
ItemsVerdict(c, verdict) ==
    IF c.rc = OK THEN verdict
    ELSE IF c.ctx.encap_type # EFX_TUNNEL_PROTOCOL_NONE /\ ~c.ctx.outer_set
    THEN "bad_encap"
    ELSE "bad_item"

\* An error of the items is returned with the code the item parsers set.
ItemsRc(items_rc, r) ==
    IF items_rc # OK /\ r.rc \in {"EINVAL", "ENOTSUP"}
    THEN [r EXCEPT !.rc = items_rc]
    ELSE r

\* sfc_mae_rule_parse_pattern on a pattern given item by item; the whole of
\* CompileInputs is tried while no other flow exists.
CompileItems(f) ==
    /\ Quiet(f)
    /\ flows[f].stage = "UNBOUND"
    /\ \A g \in 1..(f - 1) : flows[g].stage # "UNBOUND"
    /\ \E in \in IF \A g \in Flows : flows[g].stage = "UNBOUND"
                  THEN CompileInputs ELSE SecondInputs :
       \E c \in {PatternItemsCompile(in.mae, 0, in.pattern)} :
       \E r \in {ItemsRc(c.rc,
                     sfc_mae_rule_parse_pattern(World, flows[f],
                         Rendered(c.ctx), ItemsVerdict(c, in.verdict), {}))} :
          /\ flows' = [flows EXCEPT ![f] =
                 [r.spec EXCEPT !.stage = IF r.rc = OK THEN "PATTERN"
                                          ELSE "FAILED",
                                !.pattern = IF r.rc = OK THEN Rendered(c.ctx)
                                            ELSE "none"]]
          /\ Commit("parse_pattern", f, r,
                    [pattern |-> in.pattern, mae |-> in.mae,
                     verdict |-> in.verdict, items_rc |-> c.rc,
                     outer_set |-> c.ctx.outer_set,
                     match_spec_outer |-> c.ctx.match_spec_outer,
                     match_spec_action |-> c.ctx.match_spec_action])
    /\ UNCHANGED counter_ids

\* Action lists with and without a VXLAN_DECAP action.
DecapActionLists ==
    {[a EXCEPT !.decap = d] : a \in ActionLists, d \in BOOLEAN}

\* sfc_mae_rule_parse_actions, the action list kept with the outcome.
ParseActionList(f, actions, verdict) ==
    /\ flows[f].stage = "PATTERN"
    /\ \E r \in {sfc_mae_rule_parse_actions(World, flows[f], actions, verdict,
                                            {})} :
          /\ flows' = [flows EXCEPT ![f] =
                 [r.spec EXCEPT !.stage = IF r.rc = OK THEN "COMPILED"
                                          ELSE "FAILED",
                                !.actions = IF r.rc = OK THEN actions
                                            ELSE "none",
                                !.pattern = IF r.rc = OK THEN @
                                            ELSE "none"]]
          /\ Commit("parse_actions", f, r,
                    [actions |-> actions, verdict |-> verdict])
    /\ UNCHANGED counter_ids

\* sfc_mae_flow_insert of a flow whose pattern has a tunnel item, while no
\* other flow is in the device.
InsertTunnelFlow(f) ==
    /\ flows[f].outer_rule # NULL
    /\ \A g \in Flows \ {f} : flows[g].rule_id = EFX_MAE_RSRC_ID_INVALID
    /\ FlowInsert(f, {})

NextPat ==
    \/ \E f \in Flows : CompileItems(f)
    \/ \E f \in Flows, a \in DecapActionLists, v \in ActionVerdicts :
          ParseActionList(f, a, v)
    \/ \E f \in Flows : FlowCleanup(f, {})
    \/ \E f \in Flows : InsertTunnelFlow(f)

SpecPat == Init /\ [][NextPat]_vars

\* ------------------------------------------------- encap. header templates
\* A VXLAN_ENCAP definition is a list of items; the spec and the mask of an
\* item are the bytes of its protocol header, in network order.
RECURSIVE BitAnd(_, _)
BitAnd(a, b) ==
    IF a = 0 \/ b = 0 THEN 0
    ELSE (a % 2) * (b % 2) + 2 * BitAnd(a \div 2, b \div 2)

BitOr(a, b) == a + b - BitAnd(a, b)
BitNot(a) == 255 - a

RTE_BE32(x) ==
    <<x \div 16777216, (x \div 65536) % 256, (x \div 256) % 256, x % 256>>

SFC_IPV4_TTL_DEF == 64
SFC_IPV6_VTC_FLOW_DEF == 1610612736    \* 0x60000000
SFC_IPV6_HOP_LIMITS_DEF == 255
SFC_VXLAN_FLAGS_DEF == 134217728       \* 0x08000000
RTE_IPV4_VHL_DEF == 69                 \* 0x45
RTE_VXLAN_DEFAULT_PORT == 4789

\* sizeof the protocol headers, and the offsets of the fields the parser
\* writes on its own.
proto_header_size ==
    [ETH |-> 14, VLAN |-> 4, IPV4 |-> 20, IPV6 |-> 40, UDP |-> 8,
     VXLAN |-> 8]

hdr_offsetof ==
    [ether_type |-> 12, eth_proto |-> 2, version_ihl |-> 0,
     total_length |-> 2, time_to_live |-> 8, next_proto_id |-> 9,
     hdr_checksum |-> 10, vtc_flow |-> 0, payload_len |-> 4, proto |-> 6,
     hop_limits |-> 7, dst_port |-> 2, dgram_len |-> 4, dgram_cksum |-> 6,
     vx_flags |-> 0]

\* The bytes of a buffer from an offset on, and a buffer with bytes stored.
BufRead(buf, ofst, n) == [i \in 1..n |-> buf[ofst + i]]

BufWrite(buf, ofst, bytes) ==
    [i \in 1..Len(buf) |->
        IF i > ofst /\ i <= ofst + Len(bytes) THEN bytes[i - ofst]
        ELSE buf[i]]

\* rte_ipv4_cksum over the 20 bytes of the header: the complement of the
\* folded sum of its 16-bit words.
RECURSIVE Fold16(_)
Fold16(sum) ==
    IF sum < 65536 THEN sum ELSE Fold16((sum % 65536) + (sum \div 65536))

RECURSIVE RawSum(_, _)
RawSum(bytes, i) ==
    IF i > Len(bytes) THEN 0
    ELSE bytes[i] * 256 + bytes[i + 1] + RawSum(bytes, i + 2)

rte_ipv4_cksum(hdr) == RTE_BE16(65535 - Fold16(RawSum(hdr, 1)))

\* One 16-bit word of the header with the bits of the mask taken from the
\* spec.
ForceWord(w, w_spec, w_mask) ==
    [i \in 1..2 |->
        BitOr(BitAnd(w[i], BitNot(w_mask[i])),
              BitAnd(w_spec[i], w_mask[i]))]

RECURSIVE ForceItemWords(_, _, _, _)
ForceItemWords(header_buf, base, parsed_item, ofst) ==
    IF ofst >= parsed_item.proto_header_size THEN header_buf
    ELSE ForceItemWords(
             BufWrite(header_buf, base + ofst,
                      ForceWord(BufRead(header_buf, base + ofst, 2),
                                BufRead(parsed_item.item.spec, ofst, 2),
                                BufRead(parsed_item.item.mask, ofst, 2))),
             base, parsed_item, ofst + 2)

\* A variant that leaves the header as it was assembled.
header_force_no_masks(header_buf, parsed_items, item_idx, base) ==
    header_buf

RECURSIVE sfc_mae_header_force_item_masks(_, _, _, _)
sfc_mae_header_force_item_masks(header_buf, parsed_items, item_idx, base) ==
    IF item_idx > Len(parsed_items) THEN header_buf
    ELSE sfc_mae_header_force_item_masks(
             ForceItemWords(header_buf, base, parsed_items[item_idx], 0),
             parsed_items, item_idx + 1,
             base + parsed_items[item_idx].proto_header_size)

exp_items_extra_vlan == <<{"VLAN"}, {}>>

\* The state of the parser before the first item. An offset of -1 stands
\* for a pointer that does not refer to the header buffer: NULL, or the
\* dummy area the unused one of ipv4 and ipv6 points to.
EncapParseStart ==
    [rc |-> OK, buf |-> <<>>, size |-> 0, exp_items |-> {"ETH"},
     parsed_items |-> <<>>, nb_vlan_tags |-> 0, next_proto_ofst |-> 0,
     ethertype_ofst |-> 0, ipv4 |-> -1, ipv6 |-> -1, udp |-> -1,
     vxlan |-> -1]

\* The switch on the item type: the fields of earlier layers that the item
\* decides, and what may follow.
EncapItemSwitch(st, type) ==
    CASE type = "ETH" ->
           [st EXCEPT !.ethertype_ofst = hdr_offsetof.ether_type,
                      !.exp_items = {"VLAN", "IPV4", "IPV6"}]
      [] type = "VLAN" ->
           [st EXCEPT
              !.buf = BufWrite(BufWrite(@, hdr_offsetof.ether_type,
                                        RTE_BE16(RTE_ETHER_TYPE_QINQ)),
                               st.ethertype_ofst,
                               RTE_BE16(RTE_ETHER_TYPE_VLAN)),
              !.ethertype_ofst = st.size + hdr_offsetof.eth_proto,
              !.exp_items = {"IPV4", "IPV6"} \cup
                            exp_items_extra_vlan[st.nb_vlan_tags + 1],
              !.nb_vlan_tags = @ + 1]
      [] type = "IPV4" ->
           [st EXCEPT
              !.buf = BufWrite(@, st.ethertype_ofst,
                               RTE_BE16(RTE_ETHER_TYPE_IPV4)),
              !.next_proto_ofst = st.size + hdr_offsetof.next_proto_id,
              !.ipv4 = st.size,
              !.exp_items = {"UDP"}]
      [] type = "IPV6" ->
           [st EXCEPT
              !.buf = BufWrite(@, st.ethertype_ofst,
                               RTE_BE16(RTE_ETHER_TYPE_IPV6)),
              !.next_proto_ofst = st.size + hdr_offsetof.proto,
              !.ipv6 = st.size,
              !.exp_items = {"UDP"}]
      [] type = "UDP" ->
           [st EXCEPT
              !.buf = BufWrite(@, st.next_proto_ofst, <<IPPROTO_UDP>>),
              !.udp = st.size,
              !.exp_items = {"VXLAN"}]
      [] type = "VXLAN" ->
           [st EXCEPT
              !.buf = BufWrite(BufWrite(BufWrite(@,
                          st.udp + hdr_offsetof.dst_port,
                          RTE_BE16(RTE_VXLAN_DEFAULT_PORT)),
                          st.udp + hdr_offsetof.dgram_len,
                          RTE_BE16(proto_header_size.UDP
                                   + proto_header_size.VXLAN)),
                          st.udp + hdr_offsetof.dgram_cksum, RTE_BE16(0)),
              !.vxlan = st.size,
              !.exp_items = {}]

\* A variant of the loop body that takes the items in any order.
encap_item_any_order(st, pattern, buf_size) ==
    IF ~pattern.spec_set THEN [st EXCEPT !.rc = "EINVAL"]
    ELSE IF ~pattern.mask_set THEN [st EXCEPT !.rc = "EINVAL"]
    ELSE IF pattern.last_set THEN [st EXCEPT !.rc = "EINVAL"]
    ELSE IF pattern.type \notin DOMAIN proto_header_size THEN st
    ELSE
    With(EncapItemSwitch(st, pattern.type), LAMBDA st1 :
    IF st1.size + proto_header_size[pattern.type] > buf_size
    THEN [st1 EXCEPT !.rc = "E2BIG"]
    ELSE [st1 EXCEPT
            !.buf = @ \o BufRead(pattern.spec, 0,
                                 proto_header_size[pattern.type]),
            !.size = @ + proto_header_size[pattern.type],
            !.parsed_items = Append(@,
                [item |-> pattern,
                 proto_header_size |-> proto_header_size[pattern.type]])])

\* The body of the loop over the items of the definition.
EncapItem(st, pattern, buf_size) ==
    IF ~pattern.spec_set THEN [st EXCEPT !.rc = "EINVAL"]
    ELSE IF ~pattern.mask_set THEN [st EXCEPT !.rc = "EINVAL"]
    ELSE IF pattern.last_set THEN [st EXCEPT !.rc = "EINVAL"]
    ELSE IF pattern.type = "VOID" THEN st
    ELSE IF pattern.type \notin st.exp_items
    THEN [st EXCEPT !.rc = "ENOTSUP"]
    ELSE
    With(EncapItemSwitch(st, pattern.type), LAMBDA st1 :
    IF st1.size + proto_header_size[pattern.type] > buf_size
    THEN [st1 EXCEPT !.rc = "E2BIG"]
    ELSE IF proto_header_size[pattern.type] % 2 # 0
    THEN [st1 EXCEPT !.rc = "EINVAL"]
    ELSE [st1 EXCEPT
            !.buf = @ \o BufRead(pattern.spec, 0,
                                 proto_header_size[pattern.type]),
            !.size = @ + proto_header_size[pattern.type],
            !.parsed_items = Append(@,
                [item |-> pattern,
                 proto_header_size |-> proto_header_size[pattern.type]])])

RECURSIVE EncapItemsLoop(_, _, _, _)
EncapItemsLoop(st, definition, i, buf_size) ==
    IF i > Len(definition) \/ st.rc # OK THEN st
    ELSE EncapItemsLoop(EncapItem(st, definition[i], buf_size), definition,
                        i + 1, buf_size)

\* The fields the parser computes once the header is complete. What it
\* writes through the one of ipv4 and ipv6 that points to the dummy area
\* reaches no byte of the header.
EncapDefaults(st) ==
    With(IF st.ipv4 < 0 THEN st.buf
         ELSE With(BufWrite(BufWrite(BufWrite(BufWrite(st.buf,
                       st.ipv4 + hdr_offsetof.version_ihl,
                       <<RTE_IPV4_VHL_DEF>>),
                       st.ipv4 + hdr_offsetof.time_to_live,
                       <<SFC_IPV4_TTL_DEF>>),
                       st.ipv4 + hdr_offsetof.total_length,
                       RTE_BE16(proto_header_size.IPV4
                                + proto_header_size.UDP
                                + proto_header_size.VXLAN)),
                       st.ipv4 + hdr_offsetof.hdr_checksum, RTE_BE16(0)),
              LAMBDA b :
              BufWrite(b, st.ipv4 + hdr_offsetof.hdr_checksum,
                       rte_ipv4_cksum(BufRead(b, st.ipv4,
                                              proto_header_size.IPV4)))),
    LAMBDA b4 :
    With(IF st.ipv6 < 0 THEN b4
         ELSE BufWrite(BufWrite(BufWrite(b4,
                  st.ipv6 + hdr_offsetof.vtc_flow,
                  RTE_BE32(SFC_IPV6_VTC_FLOW_DEF)),
                  st.ipv6 + hdr_offsetof.hop_limits,
                  <<SFC_IPV6_HOP_LIMITS_DEF>>),
                  st.ipv6 + hdr_offsetof.payload_len,
                  BufRead(b4, st.udp + hdr_offsetof.dgram_len, 2)),
    LAMBDA b6 :
    BufWrite(b6, st.vxlan + hdr_offsetof.vx_flags,
             RTE_BE32(SFC_VXLAN_FLAGS_DEF))))

\* conf->definition is NULL (definition_set is FALSE) or a list of items
\* that ends with END; the result keeps the bounce
\* buffer's size and bytes, and the header as it stood before the masks
\* were applied.
sfc_mae_rule_parse_action_vxlan_encap(w, buf_size, conf, F) ==
    IF ~conf.definition_set
    THEN [w |-> w, rc |-> "EINVAL", size |-> 0, buf |-> <<>>,
          assembled |-> <<>>, parsed_items |-> <<>>]
    ELSE
    With(EncapItemsLoop(EncapParseStart, conf.definition, 1, buf_size),
    LAMBDA st :
    IF st.rc # OK
    THEN [w |-> w, rc |-> st.rc, size |-> st.size, buf |-> st.buf,
          assembled |-> st.buf, parsed_items |-> st.parsed_items]
    ELSE IF st.exp_items # {}
    THEN [w |-> w, rc |-> "ENOTSUP", size |-> st.size, buf |-> st.buf,
          assembled |-> st.buf, parsed_items |-> st.parsed_items]
    ELSE
    With(EncapDefaults(st), LAMBDA assembled :
    With(DevCall(w, "efx_mae_action_set_populate_encap",
                 "sfc_mae_rule_parse_action_vxlan_encap", NULL, 0, F),
    LAMBDA populate :
    [w |-> populate.w, rc |-> populate.rc, size |-> st.size,
     buf |-> sfc_mae_header_force_item_masks(assembled, st.parsed_items,
                                             1, 0),
     assembled |-> assembled, parsed_items |-> st.parsed_items])))


\* An item of a definition whose spec bytes count up from s and whose mask
\* bytes are all m.
EhItem(type, s, m) ==
    LET n == IF type \in DOMAIN proto_header_size
             THEN proto_header_size[type] ELSE 0
    IN [type |-> type, spec_set |-> TRUE, mask_set |-> TRUE,
        last_set |-> FALSE, spec |-> [i \in 1..n |-> (s + i) % 256],
        mask |-> [i \in 1..n |-> m]]

EhFill(shape, s, m) == [i \in 1..Len(shape) |-> EhItem(shape[i], s, m)]

EhShapes ==
    {<<"ETH">> \o vlans \o <<ip, "UDP", "VXLAN">> :
        vlans \in {<<>>, <<"VLAN">>, <<"VLAN", "VLAN">>},
        ip \in {"IPV4", "IPV6"}}

\* Definitions of every accepted shape under the same spec and mask bytes,
\* and definitions of the shortest shapes with a mask of their own for each
\* item.
EhMasked ==
    {EhFill(sh, s, m) : sh \in EhShapes, s \in {0, 90, 250},
                        m \in {0, 15, 240, 255}}
    \cup {<<EhItem("ETH", 90, m[1]), EhItem(ip, 165, m[2]),
            EhItem("UDP", 0, m[3]), EhItem("VXLAN", 250, m[4])>> :
             ip \in {"IPV4", "IPV6"}, m \in [1..4 -> {0, 255}]}

\* Definitions with VOID items, with items missing, repeated, out of order
\* or unknown, and with an item that has no spec, no mask or a range.
EhOdd ==
    LET good == EhFill(<<"ETH", "VLAN", "VLAN", "IPV4", "UDP", "VXLAN">>,
                       90, 255)
        void == EhItem("VOID", 0, 0)
    IN {<<>>, <<void>>}
       \cup {SubSeq(good, 1, k) \o <<void>> \o SubSeq(good, k + 1, 6) :
                k \in 0..6}
       \cup {SubSeq(good, 1, k) \o <<[void EXCEPT !.spec_set = FALSE]>>
                \o SubSeq(good, k + 1, 6) : k \in {0, 3, 6}}
       \cup {SubSeq(good, 1, k) : k \in 1..5}
       \cup {SubSeq(good, 1, k - 1) \o SubSeq(good, k + 1, 6) : k \in 1..6}
       \cup {SubSeq(good, 1, k) \o <<good[k]>> \o SubSeq(good, k + 1, 6) :
                k \in 1..6}
       \cup {good \o <<EhItem(t, 90, 255)>> : t \in {"ETH", "VXLAN", "TCP"}}
       \cup {[good EXCEPT ![k] = EhItem(t, 90, 255)] :
                k \in 4..5, t \in {"IPV6", "TCP", "UDP"}}
       \cup {[good EXCEPT ![k].spec_set = FALSE] : k \in 1..6}
       \cup {[good EXCEPT ![k].mask_set = FALSE] : k \in 1..6}
       \cup {[good EXCEPT ![k].last_set = TRUE] : k \in 1..6}

\* Definitions whose IPV4 item masks nothing but the TTL.
EhTtlMasked ==
    {<<EhItem("ETH", 90, 0),
       [EhItem("IPV4", s, 0) EXCEPT
           !.mask[hdr_offsetof.time_to_live + 1] = 255],
       EhItem("UDP", 0, 0), EhItem("VXLAN", 250, 0)>> : s \in {55, 165}}

EncapConfs ==
    {[definition_set |-> FALSE, definition |-> <<>>]}
    \cup {[definition_set |-> TRUE, definition |-> d] :
             d \in EhMasked \cup EhOdd \cup EhTtlMasked}

\* eml_encap_header_size_limit, the size of the bounce buffer.
EncapHeaderSizeLimits == {49, 50, 57, 58, 128}

\* The parser run on the VXLAN_ENCAP action of the first action list the
\* adapter is given; the outcome is kept with the definition.
VxlanEncap(conf, buf_size, F) ==
    /\ last.op = "init"
    /\ \E r \in {sfc_mae_rule_parse_action_vxlan_encap(World, buf_size,
                                                       conf, F)} :
          Commit("vxlan_encap", NULL, r,
                 [conf |-> conf, buf_size |-> buf_size, size |-> r.size,
                  buf |-> r.buf, assembled |-> r.assembled])
    /\ UNCHANGED <<flows, counter_ids>>

NextEh ==
    \E conf \in EncapConfs, buf_size \in EncapHeaderSizeLimits,
       F \in FaultSets({"efx_mae_action_set_populate_encap"}) :
          VxlanEncap(conf, buf_size, F)

SpecEh == Init /\ [][NextEh]_vars

\* ------------------------------------------------------ action list items
\* An action of an action list: its type and the value of its conf.
SFC_MAE_ACTIONS_BUNDLE_EMPTY == "EMPTY"
SFC_MAE_ACTIONS_BUNDLE_VLAN_PUSH == "VLAN_PUSH"

\* struct sfc_mae_actions_bundle after memset(bundle, 0, sizeof(*bundle)).
BundleZero ==
    [type |-> SFC_MAE_ACTIONS_BUNDLE_EMPTY, actions_mask |-> {},
     vlan_push_tpid |-> 0, vlan_push_tci |-> 0]

\* An efx_mae_action_set_populate_* call: the device library takes the
\* action into the specification or refuses it. The parser's locals st are
\* the return code, the bundle, and the actions the specification has been
\* populated with, in the order of the calls.
Populate(st, fn, by, action, F) ==
    With(DevCall(st.w, fn, by, NULL, 0, F), LAMBDA call :
    [st EXCEPT !.w = call.w, !.rc = call.rc,
               !.spec = IF call.rc = OK THEN Append(@, action) ELSE @])

sfc_mae_actions_bundle_submit(st, F) ==
    IF st.bundle.type = SFC_MAE_ACTIONS_BUNDLE_VLAN_PUSH
    THEN Populate(st, "efx_mae_action_set_populate_vlan_push",
                  "sfc_mae_actions_bundle_submit",
                  [type |-> "VLAN_PUSH", tpid |-> st.bundle.vlan_push_tpid,
                   tci |-> st.bundle.vlan_push_tci], F)
    ELSE [st EXCEPT !.rc = OK]

BundleActions == {"OF_PUSH_VLAN", "OF_SET_VLAN_VID", "OF_SET_VLAN_PCP"}

\* A variant that submits the bundle only when the bundle type changes.
bundle_sync_ignores_repeat(st, action, F) ==
    LET bundle_type_new ==
            IF action.type \in BundleActions
            THEN SFC_MAE_ACTIONS_BUNDLE_VLAN_PUSH
            ELSE SFC_MAE_ACTIONS_BUNDLE_EMPTY
    IN With(IF bundle_type_new # st.bundle.type
            THEN With(sfc_mae_actions_bundle_submit(st, F), LAMBDA sub :
                 IF sub.rc # OK THEN sub
                 ELSE [sub EXCEPT !.bundle = BundleZero])
            ELSE st,
       LAMBDA st1 :
       IF st1.rc # OK THEN st1
       ELSE [st1 EXCEPT !.bundle.type = bundle_type_new])

sfc_mae_actions_bundle_sync(st, action, F) ==
    LET bundle_type_new ==
            IF action.type \in BundleActions
            THEN SFC_MAE_ACTIONS_BUNDLE_VLAN_PUSH
            ELSE SFC_MAE_ACTIONS_BUNDLE_EMPTY
    IN With(IF \/ bundle_type_new # st.bundle.type
               \/ action.type \in st.bundle.actions_mask
            THEN With(sfc_mae_actions_bundle_submit(st, F), LAMBDA sub :
                 IF sub.rc # OK THEN sub
                 ELSE [sub EXCEPT !.bundle = BundleZero])
            ELSE st,
       LAMBDA st1 :
       IF st1.rc # OK THEN st1
       ELSE [st1 EXCEPT !.bundle.type = bundle_type_new])

\* vlan_vid and vlan_pcp go into the TCI by their 12 and 3 low bits.
sfc_mae_rule_parse_action_of_set_vlan_vid(conf, bundle) ==
    [bundle EXCEPT !.vlan_push_tci = BitOr(@, BitAnd(conf, 4095))]

sfc_mae_rule_parse_action_of_set_vlan_pcp(conf, bundle) ==
    [bundle EXCEPT !.vlan_push_tci = BitOr(@, BitAnd(conf, 7) * 8192)]

\* The actions of the list that need no bundle and no registry entry.
PopulateFns ==
    [OF_POP_VLAN |-> "efx_mae_action_set_populate_vlan_pop",
     FLAG |-> "efx_mae_action_set_populate_flag",
     MARK |-> "efx_mae_action_set_populate_mark",
     DROP |-> "efx_mae_action_set_populate_drop"]

sfc_mae_rule_parse_action_item(st, action, F) ==
    With(CASE action.type = "OF_PUSH_VLAN" ->
                [st EXCEPT !.bundle.vlan_push_tpid = action.conf, !.rc = OK]
           [] action.type = "OF_SET_VLAN_VID" ->
                [st EXCEPT !.bundle =
                     sfc_mae_rule_parse_action_of_set_vlan_vid(action.conf,
                                                               @),
                           !.rc = OK]
           [] action.type = "OF_SET_VLAN_PCP" ->
                [st EXCEPT !.bundle =
                     sfc_mae_rule_parse_action_of_set_vlan_pcp(action.conf,
                                                               @),
                           !.rc = OK]
           [] action.type \in DOMAIN PopulateFns ->
                Populate(st, PopulateFns[action.type],
                         "sfc_mae_rule_parse_action", action, F)
           [] OTHER -> [st EXCEPT !.rc = "ENOTSUP"],
    LAMBDA st1 :
    IF st1.rc = OK
    THEN [st1 EXCEPT !.bundle.actions_mask = @ \cup {action.type}]
    ELSE st1)

\* The loop of sfc_mae_rule_parse_actions over the actions before END, and
\* the sync that END gets.
RECURSIVE ActionItemsLoop(_, _, _, _)
ActionItemsLoop(st, actions, i, F) ==
    IF i > Len(actions)
    THEN sfc_mae_actions_bundle_sync(st, [type |-> "END", conf |-> 0], F)
    ELSE
    With(sfc_mae_actions_bundle_sync(st, actions[i], F), LAMBDA synced :
    IF synced.rc # OK THEN synced
    ELSE
    With(sfc_mae_rule_parse_action_item(synced, actions[i], F),
    LAMBDA parsed :
    IF parsed.rc # OK THEN parsed
    ELSE ActionItemsLoop(parsed, actions, i + 1, F)))

ActionItemsCompile(w, actions, F) ==
    ActionItemsLoop([w |-> w, rc |-> OK, bundle |-> BundleZero,
                     spec |-> <<>>], actions, 1, F)

\* The actions the lists are made of, and the lists.
ActionItemKinds ==
    {[type |-> "OF_PUSH_VLAN", conf |-> RTE_ETHER_TYPE_VLAN],
     [type |-> "OF_SET_VLAN_VID", conf |-> 4101],
     [type |-> "OF_SET_VLAN_PCP", conf |-> 11],
     [type |-> "FLAG", conf |-> 0],
     [type |-> "QUEUE", conf |-> 0]}

MaxActions == 4     \* actions of a list before END

RECURSIVE SeqsUpTo(_, _)
SeqsUpTo(S, n) ==
    IF n = 0 THEN {<<>>}
    ELSE SeqsUpTo(S, n - 1)
         \cup {Append(q, x) : q \in {p \in SeqsUpTo(S, n - 1) :
                                        Len(p) = n - 1}, x \in S}

ActionItemLists == SeqsUpTo(ActionItemKinds, MaxActions)

BundleFaults ==
    {"efx_mae_action_set_populate_vlan_push",
     "efx_mae_action_set_populate_flag"}

\* The actions of the first action list the adapter is given are parsed;
\* the populated actions are kept with the list.
ParseActionItems(actions, F) ==
    /\ last.op = "init"
    /\ \E r \in {ActionItemsCompile(World, actions, F)} :
          Commit("parse_action_items", NULL, r,
                 [actions |-> actions, spec |-> r.spec,
                  bundle |-> r.bundle])
    /\ UNCHANGED <<flows, counter_ids>>

NextAct ==
    \E actions \in ActionItemLists, F \in FaultSets(BundleFaults) :
       ParseActionItems(actions, F)

SpecAct == Init /\ [][NextAct]_vars

\* ------------------------------------------- stopping the counter service
\* sfc_mae_counter_stop runs on the control thread while the service core
\* may still be inside sfc_mae_counter_routine; each step below is one
\* statement group of sfc_mae_counter_stop / _service_unregister.
wait_ms == 10       \* polls of rte_service_may_be_active (10000 in the code)

\* Every variable but pc, last and those of the counter queue stays.
StopFrame ==
    UNCHANGED <<outer_rules, encap_headers, action_sets, internal_rules,
                repr_ports, counters, xstats, flows, counter_ids, faults>>

\* sfc_mae_counter_start, not while a stop is under way (both run under the
\* adapter lock).
ServiceStart(F) ==
    /\ pc.control.at = "idle"
    /\ CounterStart(F)

\* The service core enters sfc_mae_counter_routine: only while the service's
\* run state is set.
ServiceBegin ==
    /\ counter_rxq_running
    /\ pc.control.at = "idle"
    /\ pc.telemetry.at = "idle"
    /\ pc' = [pc EXCEPT !.telemetry = [at |-> "routine"]]
    /\ last' = [op |-> "service_begin", flow |-> NULL, rc |-> OK,
                calls |-> <<>>, arg |-> "none"]
    /\ UNCHANGED <<counter_rxq_running, counter_registry, dev>>
    /\ StopFrame

\* The service core leaves sfc_mae_counter_routine.
ServiceEnd ==
    /\ pc.telemetry.at = "routine"
    /\ \E w \in {sfc_mae_counter_routine(World, <<>>, {})} :
          /\ counter_registry' = w.counter_registry
          /\ dev' = w.dev
          /\ last' = [op |-> "service_end", flow |-> NULL, rc |-> OK,
                      calls |-> w.calls, arg |-> "none"]
    /\ pc' = [pc EXCEPT !.telemetry = [at |-> "idle"]]
    /\ UNCHANGED counter_rxq_running
    /\ StopFrame

\* sfc_mae_counter_stop up to the loop: nothing when the queue is not
\* running, else both run states are cleared.
StopEnter ==
    /\ pc.control.at = "idle"
    /\ IF ~counter_rxq_running
       THEN /\ pc' = pc
            /\ last' = [op |-> "counter_stop", flow |-> NULL, rc |-> OK,
                        calls |-> <<>>, arg |-> [skipped |-> TRUE]]
       ELSE /\ pc' = [pc EXCEPT !.control =
                         [at |-> "stop_poll", held |-> FALSE, i |-> 0]]
            /\ last' = [op |-> "stop_enter", flow |-> NULL, rc |-> OK,
                        calls |-> Call(Call(World,
                            "rte_service_runstate_set",
                            "sfc_mae_counter_service_unregister", NULL, 0,
                            OK),
                            "rte_service_component_runstate_set",
                            "sfc_mae_counter_service_unregister", NULL, 0,
                            OK).calls,
                        arg |-> "none"]
    /\ UNCHANGED <<counter_rxq_running, counter_registry, dev>>
    /\ StopFrame

\* A variant of the loop that waits for the service without a bound.
stop_poll_without_bound ==
    /\ pc.control.at = "stop_poll"
    /\ pc.telemetry.at # "routine"
    /\ pc' = [pc EXCEPT !.control.at = "stop_unmap"]
    /\ last' = [op |-> "stop_poll", flow |-> NULL, rc |-> OK,
                calls |-> <<>>, arg |-> [active |-> FALSE]]
    /\ UNCHANGED <<counter_rxq_running, counter_registry, dev>>
    /\ StopFrame

\* One round of the loop: leave it when the service is not active or when
\* wait_ms rounds have passed, else sleep and count the round.
StopPoll ==
    /\ pc.control.at = "stop_poll"
    /\ IF pc.control.i < wait_ms /\ pc.telemetry.at = "routine"
       THEN pc' = [pc EXCEPT !.control.i = @ + 1]
       ELSE pc' = [pc EXCEPT !.control.at = "stop_unmap"]
    /\ last' = [op |-> "stop_poll", flow |-> NULL, rc |-> OK,
                calls |-> <<>>,
                arg |-> [active |-> pc.telemetry.at = "routine"]]
    /\ UNCHANGED <<counter_rxq_running, counter_registry, dev>>
    /\ StopFrame

\* After the loop: unmap and unregister the service, stop the stream, mark
\* the queue as not running.
StopFinish ==
    /\ pc.control.at = "stop_unmap"
    /\ pc' = [pc EXCEPT !.control = [at |-> "idle", held |-> FALSE]]
    /\ counter_rxq_running' = FALSE
    /\ last' = [op |-> "counter_stop", flow |-> NULL, rc |-> OK,
                calls |-> Call(Call(Call(World,
                    "rte_service_map_lcore_set",
                    "sfc_mae_counter_service_unregister", NULL, 0, OK),
                    "rte_service_component_unregister",
                    "sfc_mae_counter_service_unregister", NULL, 0, OK),
                    "efx_mae_counters_stream_stop", "sfc_mae_counter_stop",
                    NULL, 0, OK).calls,
                arg |-> [skipped |-> FALSE, polls |-> pc.control.i,
                         quiesced |-> pc.telemetry.at # "routine"]]
    /\ UNCHANGED <<counter_registry, dev>>
    /\ StopFrame

NextStop ==
    \/ \E F \in FaultSets(CreditFaults) : ServiceStart(F)
    \/ ServiceBegin
    \/ ServiceEnd
    \/ StopEnter
    \/ StopPoll
    \/ StopFinish

\* The control thread is scheduled: a step of the stop that can be taken is
\* taken.  Nothing makes the service core finish its iteration.
SpecStop ==
    Init /\ [][NextStop]_vars /\ WF_vars(StopPoll) /\ WF_vars(StopFinish)

\* ------------------------------------- records that name no counter slot
\* counters->mae_counters[] has n_mae_counters elements.  An index beyond it
\* makes sfc_mae_counter_increment work on the memory that follows the
\* array: what that memory holds is not the driver's to decide, so it is an
\* input, laid out as the slot the code takes it for, and it is kept as
\* element NCounters of the array for the time of the call.
HeapSlots ==
    [inuse : BOOLEAN, generation_count : 0..MaxGen,
     value : {[pkts |-> 0, bytes |-> 0]}, reset : {[pkts |-> 0, bytes |-> 0]}]

StreamPackets ==
    {Packet(c, g, MaxRecords) : c \in 0..NCounters, g \in 0..MaxGen}

\* One run of the service routine over one packet of the stream.
RoutineOverHeap(m, beyond) ==
    /\ \E w \in {sfc_mae_counter_routine(
                     [World EXCEPT !.counters = @ @@ (NCounters :> beyond)],
                     <<m>>, {})} :
          /\ \A c \in 0..(NCounters - 1) :
                /\ w.counters[c].value.pkts <= MaxValue
                /\ w.counters[c].value.bytes <= MaxValue
          /\ w.xstats.not_inuse_update <= MaxXstat
          /\ w.xstats.realloc_update <= MaxXstat
          /\ Commit("routine", NULL,
                    [w |-> [w EXCEPT !.counters =
                               [c \in 0..(NCounters - 1) |-> w.counters[c]]],
                     rc |-> OK],
                    [m |-> m, beyond |-> beyond,
                     after |-> w.counters[NCounters]])
    /\ UNCHANGED <<flows, counter_ids>>

NextHeap ==
    \/ \E k \in 1..MaxCids, F \in FaultSets({"counter id out of range"}) :
          CounterAdd(k, F)
    \/ \E k \in 1..MaxCids : CounterDel(k, {})
    \/ GenerationAdvance
    \/ \E m \in StreamPackets, beyond \in HeapSlots :
          RoutineOverHeap(m, beyond)

SpecHeap == Init /\ [][NextHeap]_vars

\* ------------------------------------------- internal rules of the proxy
\* The representor proxy asks for one mport match-deliver rule per port when
\* the port starts and deletes it when the port stops.
InternalRuleFaults ==
    {"efx_mae_match_spec_init", "efx_mae_match_spec_mport_set",
     "efx_mae_action_set_spec_init", "efx_mae_action_set_populate_deliver",
     "efx_mae_action_set_alloc", "efx_mae_action_rule_insert"}

\* sfc_repr_proxy_mae_rule_insert with the priority as an input (the proxy
\* passes -1).
ReprRuleInsert(port, prio, F) ==
    /\ ~repr_ports[port].started
    /\ \E r \in {sfc_mae_rule_add_mport_match_deliver(World, prio, F)} :
          Commit("rule_add", port,
                 [w |-> IF r.rc = OK
                        THEN [r.w EXCEPT !.repr_ports[port] =
                                 [started |-> TRUE, mae_rule |-> r.rule]]
                        ELSE r.w,
                  rc |-> r.rc],
                 [prio |-> prio, rule |-> r.rule])
    /\ UNCHANGED <<flows, counter_ids>>

\* sfc_repr_proxy_mae_rule_remove.
ReprRuleRemove(port) ==
    /\ repr_ports[port].started
    /\ \E w \in {sfc_mae_rule_del(World, repr_ports[port].mae_rule, {})} :
          Commit("rule_del", port,
                 [w |-> [w EXCEPT !.repr_ports[port].started = FALSE],
                  rc |-> OK],
                 [rule |-> repr_ports[port].mae_rule])
    /\ UNCHANGED <<flows, counter_ids>>

NextInt ==
    \/ \E port \in 1..MaxPorts, prio \in -1..nb_action_rule_prios_max,
          F \in FaultSets(InternalRuleFaults) : ReprRuleInsert(port, prio, F)
    \/ \E port \in 1..MaxPorts : ReprRuleRemove(port)

SpecInt == Init /\ [][NextInt]_vars

\* ------------------------------------------------------------- properties
Ptrs(q) == {q[i].ptr : i \in 1..Len(q)}

\* The hardware half of an entry: <<hardware-enable refcount, resource id>>.
OuterFw(q, p) ==
    IF Has(q, p) THEN <<Ent(q, p).fw_refcnt, Ent(q, p).rule_id>> ELSE <<>>
EhFw(q, p) ==
    IF Has(q, p) THEN <<Ent(q, p).fw_refcnt, Ent(q, p).eh_id>> ELSE <<>>
AsetFw(q, p) ==
    IF Has(q, p) THEN <<Ent(q, p).fw_refcnt, Ent(q, p).aset_id>> ELSE <<>>

AllocFns ==
    {"efx_mae_outer_rule_insert", "efx_mae_encap_header_alloc",
     "efx_mae_action_set_alloc"}
FreeFns ==
    {"efx_mae_outer_rule_remove", "efx_mae_encap_header_free",
     "efx_mae_action_set_free"}
FillFns ==
    {"efx_mae_match_spec_outer_rule_id_set",
     "efx_mae_action_set_fill_in_eh_id"}
Enables ==
    {"sfc_mae_outer_rule_enable", "sfc_mae_encap_header_enable",
     "sfc_mae_action_set_enable"}
Disables ==
    {"sfc_mae_outer_rule_disable", "sfc_mae_encap_header_disable",
     "sfc_mae_action_set_disable"}

NoCallFailed(l) == \A k \in 1..Len(l.calls) : l.calls[k].rc = OK

\* C1: for every outer-rule, encap-header and action-set entry, at every
\* point between operations (directly after a failed one included), the
\* hardware resource id is the invalid sentinel exactly when the
\* hardware-enable refcount is 0.
C1_IdInvalidIffDisabled ==
    /\ \A i \in 1..Len(outer_rules) :
          (outer_rules[i].rule_id = EFX_MAE_RSRC_ID_INVALID)
              <=> (outer_rules[i].fw_refcnt = 0)
    /\ \A i \in 1..Len(encap_headers) :
          (encap_headers[i].eh_id = EFX_MAE_RSRC_ID_INVALID)
              <=> (encap_headers[i].fw_refcnt = 0)
    /\ \A i \in 1..Len(action_sets) :
          (action_sets[i].aset_id = EFX_MAE_RSRC_ID_INVALID)
              <=> (action_sets[i].fw_refcnt = 0)

\* C2: while a flow references an outer-rule or action-set entry, the entry
\* is in its registry and its software refcount is non-zero: it counts at
\* least the flows that reference the entry, whatever the other flows do.
C2_ReferencedEntriesLive ==
    \A f \in Flows :
        /\ flows[f].outer_rule # NULL =>
              /\ Has(outer_rules, flows[f].outer_rule)
              /\ Ent(outer_rules, flows[f].outer_rule).refcnt # 0
              /\ Ent(outer_rules, flows[f].outer_rule).refcnt >=
                     Cardinality({g \in Flows :
                         flows[g].outer_rule = flows[f].outer_rule})
        /\ flows[f].action_set # NULL =>
              /\ Has(action_sets, flows[f].action_set)
              /\ Ent(action_sets, flows[f].action_set).refcnt # 0
              /\ Ent(action_sets, flows[f].action_set).refcnt >=
                     Cardinality({g \in Flows :
                         flows[g].action_set = flows[f].action_set})

\* A flow has just been cleaned up while another flow still references an
\* outer rule and an action set that it alone holds.
C2_Witness ==
    /\ last.op = "cleanup"
    /\ \E f \in Flows \ {last.flow} :
          /\ flows[f].outer_rule # NULL
          /\ flows[f].action_set # NULL
          /\ Has(outer_rules, flows[f].outer_rule)
          /\ Has(action_sets, flows[f].action_set)
          /\ Ent(outer_rules, flows[f].outer_rule).refcnt = 1
          /\ Ent(action_sets, flows[f].action_set).refcnt = 1

\* C3: whenever sfc_mae_flow_insert returns an error, the flow's hardware
\* rule id is the invalid sentinel and the hardware-enable refcount and
\* resource id of the flow's outer rule, action set, the action set's encap
\* header and its counter binding equal their values before the call.
C3_FailedInsertRolledBack ==
    [][(last'.op = "insert" /\ last'.rc # OK) =>
          LET spec == flows[last'.flow]
              as == spec.action_set
              eh == Ent(action_sets, as).encap_header
          IN /\ flows'[last'.flow].rule_id = EFX_MAE_RSRC_ID_INVALID
             /\ OuterFw(outer_rules', spec.outer_rule) =
                    OuterFw(outer_rules, spec.outer_rule)
             /\ AsetFw(action_sets', as) = AsetFw(action_sets, as)
             /\ EhFw(encap_headers', eh) = EhFw(encap_headers, eh)
             /\ Ent(action_sets', as).counters =
                    Ent(action_sets, as).counters]_vars

\* The flow that has just compiled its pattern comes second to a compiled
\* flow f with the same pattern, one that has a tunnel item.
SecondPattern(f) ==
    /\ last'.op = "parse_pattern" /\ last'.rc = OK /\ f # last'.flow
    /\ flows[f].stage = "COMPILED"
    /\ flows[f].pattern = flows'[last'.flow].pattern
    /\ flows[f].pattern.encap_type # EFX_TUNNEL_PROTOCOL_NONE

\* The flow that has just compiled its actions comes second to a compiled
\* flow f with the same pattern and the same action list, one without COUNT.
SecondActions(f) ==
    /\ last'.op = "parse_actions" /\ last'.rc = OK /\ f # last'.flow
    /\ flows[f].stage = "COMPILED"
    /\ flows[f].pattern = flows'[last'.flow].pattern
    /\ flows[f].actions = flows'[last'.flow].actions
    /\ flows[f].actions.count_ids = <<>>

\* What the second compile does to the outer rule and the action set of f.
SharesOuterRule(f) ==
    /\ flows'[last'.flow].outer_rule = flows[f].outer_rule
    /\ Len(outer_rules') = Len(outer_rules)
    /\ Ent(outer_rules', flows[f].outer_rule).refcnt =
           Ent(outer_rules, flows[f].outer_rule).refcnt + 1

SharesActionSet(f) ==
    /\ flows'[last'.flow].action_set = flows[f].action_set
    /\ Len(action_sets') = Len(action_sets)
    /\ Len(encap_headers') = Len(encap_headers)
    /\ Ent(action_sets', flows[f].action_set).refcnt =
           Ent(action_sets, flows[f].action_set).refcnt + 1

\* The encap header of f's action set counts `by` more references.
EncapHeaderRefcntGrows(f, by) ==
    LET eh == Ent(action_sets, flows[f].action_set).encap_header
    IN eh # NULL =>
          /\ Has(encap_headers', eh)
          /\ Ent(encap_headers', eh).refcnt =
                 Ent(encap_headers, eh).refcnt + by

\* C4 as stated: compiling the same pattern and action list (no COUNT) a
\* second time yields a flow that references the same outer rule, encap
\* header and action set, no registry gains an entry, and each of the three
\* shared entries has its software refcount incremented.
C4_SecondCompileIncrementsAllThree ==
    [][\A f \in Flows :
          /\ SecondPattern(f) => SharesOuterRule(f)
          /\ SecondActions(f) =>
                SharesActionSet(f) /\ EncapHeaderRefcntGrows(f, 1)]_vars

\* C4 amended: the second compile shares the three entries and adds none;
\* it increments the software refcount of the outer rule and of the action
\* set, and leaves the encap header's software refcount as it was (the
\* reference taken while compiling is released once the action set is found).
C4_SecondCompileShares ==
    [][\A f \in Flows :
          /\ SecondPattern(f) => SharesOuterRule(f)
          /\ SecondActions(f) =>
                SharesActionSet(f) /\ EncapHeaderRefcntGrows(f, 0)]_vars

\* Two compiled flows with the same tunnel pattern and the same encap action
\* list without COUNT, the second one just compiled.
C4_Witness ==
    /\ last.op = "parse_actions" /\ last.rc = OK
    /\ \E f \in Flows \ {last.flow} :
          /\ flows[f].stage = "COMPILED"
          /\ flows[f].pattern = flows[last.flow].pattern
          /\ flows[f].actions = flows[last.flow].actions
          /\ flows[f].actions.count_ids = <<>>
          /\ flows[f].actions.eh # "none"
          /\ flows[f].outer_rule # NULL
          /\ flows[f].outer_rule = flows[last.flow].outer_rule
          /\ flows[f].action_set = flows[last.flow].action_set
          /\ Ent(action_sets, flows[f].action_set).refcnt = 2
          /\ Ent(outer_rules, flows[f].outer_rule).refcnt = 2

\* C5: a compile of an action list with COUNT never attaches: it appends a
\* new action-set entry with software refcount 1 and leaves the entries that
\* exist alone, so no two flows ever share an action set that carries COUNT
\* (nor, with it, its counter binding).
C5_CountNeverShared ==
    [][/\ \A f, g \in Flows :
             (/\ f # g
              /\ flows'[f].action_set # NULL
              /\ flows'[f].action_set = flows'[g].action_set)
                => Ent(action_sets', flows'[f].action_set).n_counters = 0
       /\ (/\ last'.op = "parse_actions" /\ last'.rc = OK
           /\ flows'[last'.flow].actions.count_ids # <<>>)
             => LET as == flows'[last'.flow].action_set
                IN /\ as \notin Ptrs(action_sets)
                   /\ Len(action_sets') = Len(action_sets) + 1
                   /\ SubSeq(action_sets', 1, Len(action_sets)) = action_sets
                   /\ action_sets'[Len(action_sets')].ptr = as
                   /\ action_sets'[Len(action_sets')].refcnt = 1
                   /\ action_sets'[Len(action_sets')].n_counters = 1]_vars

\* Two compiled flows with the same action list with COUNT hold two action
\* sets that agree in action spec and encap header.
C5_Witness ==
    \E f, g \in Flows :
        /\ f # g
        /\ flows[f].stage = "COMPILED" /\ flows[g].stage = "COMPILED"
        /\ flows[f].actions = flows[g].actions
        /\ flows[f].actions.count_ids # <<>>
        /\ flows[f].action_set # flows[g].action_set
        /\ Ent(action_sets, flows[f].action_set).spec =
               Ent(action_sets, flows[g].action_set).spec
        /\ Ent(action_sets, flows[f].action_set).encap_header =
               Ent(action_sets, flows[g].action_set).encap_header
        /\ Ent(action_sets, flows[f].action_set).refcnt = 1
        /\ Ent(action_sets, flows[g].action_set).refcnt = 1

\* C6: an update applied to a slot that is not in use, or with a generation
\* lower than the slot's recorded one, leaves the slot's accumulated value
\* and reset baseline alone and adds one to the matching statistic; any
\* other update adds exactly its packet and byte deltas to the value.
C6_IncrementFrame ==
    [][last'.op = "increment" =>
          LET a == last'.arg
              p == counters[a.mae_counter_id]
              q == counters'[a.mae_counter_id]
          IN /\ q.reset = p.reset
             /\ q.inuse = p.inuse
             /\ q.generation_count = p.generation_count
             /\ \A c \in DOMAIN counters :
                   c # a.mae_counter_id => counters'[c] = counters[c]
             /\ ~p.inuse =>
                   /\ q.value = p.value
                   /\ xstats' = [xstats EXCEPT !.not_inuse_update = @ + 1]
             /\ (p.inuse /\ a.generation_count < p.generation_count) =>
                   /\ q.value = p.value
                   /\ xstats' = [xstats EXCEPT !.realloc_update = @ + 1]
             /\ (p.inuse /\ a.generation_count >= p.generation_count) =>
                   /\ q.value = [pkts |-> p.value.pkts + a.pkts,
                                 bytes |-> p.value.bytes + a.bytes]
                   /\ xstats' = xstats]_vars

\* A late update of an older generation has just been turned away from a
\* slot that is in use again and that has accepted updates of its own.
C6_Witness ==
    /\ last.op = "increment"
    /\ counters[last.arg.mae_counter_id].inuse
    /\ last.arg.generation_count <
           counters[last.arg.mae_counter_id].generation_count
    /\ last.arg.pkts > 0
    /\ counters[last.arg.mae_counter_id].value.pkts > 0
    /\ xstats.realloc_update = 1

\* C7: two action sets share one encap header in software, and one of them
\* holds the header's only hardware reference; when the last hardware
\* reference to that action set is dropped (every device call succeeding),
\* the header's hardware resource is freed (refcount 0, id invalid) and the
\* header stays in the registry with its software refcount unchanged.
C7_LastDisableFreesSharedHeader ==
    [][(last'.op = "remove" /\ last'.rc = OK /\ NoCallFailed(last')) =>
          LET as == flows[last'.flow].action_set
              A == Ent(action_sets, as)
              eh == A.encap_header
          IN (/\ A.fw_refcnt = 1
              /\ eh # NULL
              /\ Ent(encap_headers, eh).fw_refcnt = 1
              /\ \E i \in 1..Len(action_sets) :
                    /\ action_sets[i].ptr # as
                    /\ action_sets[i].encap_header = eh
                    /\ action_sets[i].fw_refcnt = 0)
             => /\ Has(encap_headers', eh)
                /\ Ent(encap_headers', eh).fw_refcnt = 0
                /\ Ent(encap_headers', eh).eh_id = EFX_MAE_RSRC_ID_INVALID
                /\ Ent(encap_headers', eh).refcnt =
                       Ent(encap_headers, eh).refcnt
                /\ Ent(encap_headers, eh).eh_id \notin dev'.eh]_vars

\* A remove has just freed the encap header that two action sets share.
C7_Witness ==
    /\ last.op = "remove" /\ last.rc = OK /\ NoCallFailed(last)
    /\ \E k \in 1..Len(last.calls) :
          last.calls[k].fn = "efx_mae_encap_header_free"
    /\ \E i \in 1..Len(encap_headers) :
          /\ encap_headers[i].refcnt = 2
          /\ encap_headers[i].fw_refcnt = 0
          /\ encap_headers[i].eh_id = EFX_MAE_RSRC_ID_INVALID
          /\ Cardinality({j \in 1..Len(action_sets) :
                 action_sets[j].encap_header = encap_headers[i].ptr}) = 2

\* The entries of a registry that are enabled hold one device resource each,
\* and the device holds no other resource of the kind.
OneResourceEach(fws, held) ==
    /\ \A e \in fws : (e[1] = 0) <=> (e[2] = EFX_MAE_RSRC_ID_INVALID)
    /\ held = {e[2] : e \in {x \in fws : x[1] # 0}}
    /\ Cardinality(held) = Cardinality({x \in fws : x[1] # 0})

\* The flows that are in hardware and reference the entry through `field`.
Inserted(field, p) ==
    {f \in Flows : /\ flows[f][field] = p
                   /\ flows[f].rule_id # EFX_MAE_RSRC_ID_INVALID}

\* While no call has failed, each entry is enabled once per inserted flow
\* (per enabled action set, for an encap header) and holds one resource.
AllocatedOnce ==
    /\ OneResourceEach({<<outer_rules[i].fw_refcnt, outer_rules[i].rule_id,
                          i>> : i \in 1..Len(outer_rules)}, dev.outer)
    /\ OneResourceEach({<<encap_headers[i].fw_refcnt, encap_headers[i].eh_id,
                          i>> : i \in 1..Len(encap_headers)}, dev.eh)
    /\ OneResourceEach({<<action_sets[i].fw_refcnt, action_sets[i].aset_id,
                          i>> : i \in 1..Len(action_sets)}, dev.aset)
    /\ \A i \in 1..Len(outer_rules) :
          outer_rules[i].fw_refcnt =
              Cardinality(Inserted("outer_rule", outer_rules[i].ptr))
    /\ \A i \in 1..Len(action_sets) :
          action_sets[i].fw_refcnt =
              Cardinality(Inserted("action_set", action_sets[i].ptr))
    /\ \A i \in 1..Len(encap_headers) :
          encap_headers[i].fw_refcnt =
              Cardinality({j \in 1..Len(action_sets) :
                  /\ action_sets[j].encap_header = encap_headers[i].ptr
                  /\ action_sets[j].fw_refcnt # 0})

\* The device alloc of an entry is called by an enable that finds the
\* hardware-enable refcount at 0.
AllocsAtZero ==
    \A k \in 1..Len(last.calls) :
        last.calls[k].fn \in AllocFns =>
            last.calls[k].by \in Enables /\ last.calls[k].refcnt = 0

\* C8 as stated: the device alloc is called only by an enable that finds
\* the hardware-enable refcount at 0 and the device free only by a disable
\* that finds it at 1, so that over successful enables and disables an
\* entry holds at most one resource: n enables allocate once, n disables
\* free once.
C8_AllocAtZeroFreeAtOne ==
    /\ AllocsAtZero
    /\ \A k \in 1..Len(last.calls) :
          last.calls[k].fn \in FreeFns =>
              last.calls[k].by \in Disables /\ last.calls[k].refcnt = 1
    /\ faults = 0 => AllocatedOnce

\* C8 amended: the device free is called by a disable that finds the
\* refcount at 1, or by a first enable (refcount 0) that undoes its own
\* allocation after the device refused to take the new id into the
\* dependent specification; the rest is as stated.
C8_AllocAtZeroFreeAtOneOrUndo ==
    /\ AllocsAtZero
    /\ \A k \in 1..Len(last.calls) :
          last.calls[k].fn \in FreeFns =>
              \/ last.calls[k].by \in Disables /\ last.calls[k].refcnt = 1
              \/ /\ last.calls[k].by \in Enables
                 /\ last.calls[k].refcnt = 0
                 /\ k > 2
                 /\ last.calls[k - 1].fn \in FillFns
                 /\ last.calls[k - 1].rc # OK
                 /\ last.calls[k - 1].by = last.calls[k].by
                 /\ last.calls[k - 2].fn \in AllocFns
                 /\ last.calls[k - 2].rc = OK
                 /\ last.calls[k - 2].ent = last.calls[k].ent
    /\ faults = 0 => AllocatedOnce

\* A second flow has just been inserted on an outer rule and an action set
\* that were enabled already: nothing was allocated for either.
C8_Witness ==
    /\ faults = 0
    /\ last.op = "insert" /\ last.rc = OK
    /\ \A k \in 1..Len(last.calls) : last.calls[k].fn \notin AllocFns
    /\ \E i \in 1..Len(outer_rules) : outer_rules[i].fw_refcnt = 2
    /\ \E i \in 1..Len(action_sets) :
          /\ action_sets[i].fw_refcnt = 2
          /\ action_sets[i].encap_header # NULL
    /\ Cardinality(dev.outer) = 1
    /\ Cardinality(dev.aset) = 1
    /\ Cardinality(dev.eh) = 1

\* C9: an entry leaves its registry exactly when release takes its software
\* refcount from 1 to 0, and only when its hardware-enable refcount is 0 and
\* its hardware resource id is invalid, in every sequence of compile,
\* insert, remove and cleanup, a failed device call during remove included.
C9_RemovedOnlyWhenDisabled ==
    [][/\ \A i \in 1..Len(outer_rules) :
             outer_rules[i].ptr \notin Ptrs(outer_rules') =>
                 /\ outer_rules[i].refcnt = 1
                 /\ outer_rules[i].fw_refcnt = 0
                 /\ outer_rules[i].rule_id = EFX_MAE_RSRC_ID_INVALID
       /\ \A i \in 1..Len(encap_headers) :
             encap_headers[i].ptr \notin Ptrs(encap_headers') =>
                 /\ encap_headers[i].refcnt = 1
                 /\ encap_headers[i].fw_refcnt = 0
                 /\ encap_headers[i].eh_id = EFX_MAE_RSRC_ID_INVALID
       /\ \A i \in 1..Len(action_sets) :
             action_sets[i].ptr \notin Ptrs(action_sets') =>
                 /\ action_sets[i].refcnt = 1
                 /\ action_sets[i].fw_refcnt = 0
                 /\ action_sets[i].aset_id = EFX_MAE_RSRC_ID_INVALID]_vars

\* The positions of the calls of a device function in the log.
Pos(l, fn, by) ==
    {k \in 1..Len(l.calls) : l.calls[k].fn = fn /\ l.calls[k].by = by}

CascadeFailed(l) ==
    \E k \in 1..Len(l.calls) :
        /\ l.calls[k].rc # OK
        /\ l.calls[k].by \in {"sfc_mae_encap_header_enable",
                              "sfc_mae_counter_add",
                              "sfc_mae_counters_enable",
                              "sfc_mae_action_set_enable"}

\* C10: the first enable of an action set enables the encap header, then
\* allocates the counter, then the action set; when a step fails, the steps
\* taken are undone before the error is returned (the encap header's
\* hardware refcount and id and the counter slots are as before the call)
\* and the action set's hardware-enable refcount is not incremented.
C10_CascadeUndone ==
    [][(/\ last'.op = "insert"
        /\ Ent(action_sets, flows[last'.flow].action_set).fw_refcnt = 0) =>
          LET as == flows[last'.flow].action_set
              eh == Ent(action_sets, as).encap_header
              l == last'
          IN /\ \A i \in Pos(l, "efx_mae_encap_header_alloc",
                             "sfc_mae_encap_header_enable"),
                   j \in Pos(l, "efx_mae_counters_alloc",
                             "sfc_mae_counter_add") : i < j
             /\ \A j \in Pos(l, "efx_mae_counters_alloc",
                             "sfc_mae_counter_add")
                         \cup Pos(l, "efx_mae_encap_header_alloc",
                                  "sfc_mae_encap_header_enable"),
                   k \in Pos(l, "efx_mae_action_set_alloc",
                             "sfc_mae_action_set_enable") : j < k
             /\ CascadeFailed(l) =>
                   /\ EhFw(encap_headers', eh) = EhFw(encap_headers, eh)
                   /\ counters' = counters
                   /\ dev'.counter = dev.counter
                   /\ dev'.eh = dev.eh
                   /\ Ent(action_sets', as).fw_refcnt = 0]_vars

\* The call of device function fn that driver function by made in the last
\* handler and that returned rc.
LastCalled(fn, by, ok) ==
    \E k \in 1..Len(last.calls) :
        /\ last.calls[k].fn = fn
        /\ last.calls[k].by = by
        /\ (last.calls[k].rc = OK) = ok

\* The last handler was an insert whose first enable of the outer rule
\* allocated the hardware outer rule and then failed to write its id into
\* the ACTION match specification.
OuterRuleIdSetFailed ==
    /\ last.op = "insert"
    /\ LastCalled("efx_mae_outer_rule_insert", "sfc_mae_outer_rule_enable",
                  TRUE)
    /\ LastCalled("efx_mae_match_spec_outer_rule_id_set",
                  "sfc_mae_outer_rule_enable", FALSE)

\* C11: when the first enable of an outer rule allocates the hardware outer
\* rule and then fails to write the id into the ACTION match specification,
\* the outer rule is as if the allocation had never been made: the device
\* resource is freed, the hardware-enable refcount is 0 and the resource id
\* is the invalid sentinel.
C11_FailedIdSetUndoesAlloc ==
    OuterRuleIdSetFailed =>
        LET rule == Ent(outer_rules, flows[last.flow].outer_rule)
        IN /\ LastCalled("efx_mae_outer_rule_remove",
                         "sfc_mae_outer_rule_enable", TRUE)
           /\ rule.fw_refcnt = 0
           /\ rule.rule_id = EFX_MAE_RSRC_ID_INVALID

\* The device-visible steps of an insert, and of a remove, in the claimed
\* order.
InsertSteps ==
    <<"efx_mae_outer_rule_insert", "efx_mae_encap_header_alloc",
      "efx_mae_counters_alloc", "efx_mae_action_set_alloc",
      "efx_mae_counters_stream_start", "efx_mae_action_rule_insert">>
RemoveSteps ==
    <<"efx_mae_action_rule_remove", "efx_mae_action_set_free",
      "efx_mae_counters_free", "efx_mae_encap_header_free",
      "efx_mae_outer_rule_remove">>

StepNames(steps) == {steps[k] : k \in 1..Len(steps)}
Rank(steps, fn) == CHOOSE k \in 1..Len(steps) : steps[k] = fn

\* The calls of the log that are steps come in the order of the steps.
InOrder(calls, steps) ==
    \A i, j \in 1..Len(calls) :
        (/\ i < j
         /\ calls[i].fn \in StepNames(steps)
         /\ calls[j].fn \in StepNames(steps))
            => Rank(steps, calls[i].fn) < Rank(steps, calls[j].fn)

\* C12: a successful insert makes its device-visible steps in the order
\* outer rule, encap header, counter, action set, counter collection,
\* hardware rule (the last call of the insert), with counter collection
\* running afterwards when the action set has a counter; a remove
\* makes its steps in the reverse order: hardware rule, action set, counter,
\* encap header, outer rule.
C12_InsertOrderRemoveReverse ==
    /\ (last.op = "insert" /\ last.rc = OK) =>
          /\ InOrder(last.calls, InsertSteps)
          /\ last.calls[Len(last.calls)].fn = "efx_mae_action_rule_insert"
          /\ Ent(action_sets, flows[last.flow].action_set).n_counters > 0
                 => counter_rxq_running
    /\ last.op = "remove" => InOrder(last.calls, RemoveSteps)

\* A remove has just freed all five resources of a flow with a tunnel
\* pattern, an encap header and a counter, after an insert.
C12_Witness ==
    /\ last.op = "remove" /\ last.rc = OK
    /\ {last.calls[k].fn : k \in 1..Len(last.calls)} = StepNames(RemoveSteps)
    /\ \A k \in 1..Len(last.calls) : last.calls[k].rc = OK

\* The step is a compile call (pattern or actions) that rejects its input:
\* it returns an error although no device or allocator call has failed.
RejectsInput ==
    /\ last'.op \in {"parse_pattern", "parse_actions"}
    /\ last'.rc # OK
    /\ NoCallFailed(last')

\* The outer-rule registry once the flow has given up the reference that
\* its specification records.
WithoutFlowRef(q, rule) ==
    IF rule = NULL THEN q
    ELSE sfc_mae_outer_rule_del([outer_rules |-> q], rule).outer_rules

\* C13: when sfc_mae_rule_parse_pattern or sfc_mae_rule_parse_actions
\* rejects its input, the three registries hold on return exactly the
\* entries, with exactly the software refcounts, that they held before the
\* call.
C13_RejectedParseMutatesNothing ==
    [][RejectsInput =>
          /\ outer_rules' = outer_rules
          /\ encap_headers' = encap_headers
          /\ action_sets' = action_sets]_vars

\* C13, amended: a rejected compile call leaves the encap-header and
\* action-set registries as they were; the outer-rule registry is as it was
\* except for the one reference that a rejected sfc_mae_rule_parse_pattern
\* has recorded in the flow specification (final validation failure after
\* the outer rule was attached or added), which the flow's cleanup releases.
C13_RejectedParseKeepsOnlyFlowRef ==
    [][(last'.op \in {"parse_pattern", "parse_actions"} /\ last'.rc # OK) =>
          /\ encap_headers' = encap_headers
          /\ action_sets' = action_sets
          /\ last'.op = "parse_actions" => outer_rules' = outer_rules
          /\ last'.op = "parse_pattern" =>
                /\ WithoutFlowRef(outer_rules',
                                  flows'[last'.flow].outer_rule) = outer_rules
                /\ last'.arg # "action_invalid"
                       => outer_rules' = outer_rules]_vars

\* A pattern with a tunnel item has just been rejected by the final
\* validation, and the flow holds a reference to an outer rule that it
\* shares with a compiled flow.
C13_Witness ==
    /\ last.op = "parse_pattern" /\ last.rc # OK
    /\ last.arg = "action_invalid"
    /\ flows[last.flow].outer_rule # NULL
    /\ Ent(outer_rules, flows[last.flow].outer_rule).refcnt = 2
    /\ \E f \in Flows \ {last.flow} : flows[f].stage = "COMPILED"

\* What a query of slot c reports in the state: value minus reset baseline.
Reported(cs, c) ==
    [hits |-> cs[c].value.pkts - cs[c].reset.pkts,
     bytes |-> cs[c].value.bytes - cs[c].reset.bytes]

\* The update of the step is one that sfc_mae_counter_increment accepts.
Accepted(c, generation_count) ==
    /\ counters[c].inuse
    /\ generation_count >= counters[c].generation_count

\* C14: a query returns the slot's accumulated value minus its reset
\* baseline, which every accepted update raises by its deltas and nothing
\* else raises; with reset it sets the baseline to the value it has read, so
\* that a query that follows it directly returns (0, 0); without reset it
\* changes nothing, and a query that follows it directly returns the same.
C14_QuerySinceReset ==
    [][/\ last'.op = "counter_get" =>
             LET a == last'.arg
                 c == a.mae_counter_id
             IN /\ [hits |-> a.hits, bytes |-> a.bytes] = Reported(counters, c)
                /\ counters'[c].value = counters[c].value
                /\ a.reset => /\ counters'[c].reset = counters[c].value
                              /\ Reported(counters', c) =
                                     [hits |-> 0, bytes |-> 0]
                /\ ~a.reset => counters' = counters
                /\ (last.op = "counter_get" /\ last.arg.mae_counter_id = c) =>
                      IF last.arg.reset
                      THEN a.hits = 0 /\ a.bytes = 0
                      ELSE a.hits = last.arg.hits /\ a.bytes = last.arg.bytes
       /\ last'.op = "increment" =>
             LET a == last'.arg
                 c == a.mae_counter_id
             IN Reported(counters', c) =
                    IF Accepted(c, a.generation_count)
                    THEN [hits |-> Reported(counters, c).hits + a.pkts,
                          bytes |-> Reported(counters, c).bytes + a.bytes]
                    ELSE Reported(counters, c)
       /\ (last'.op = "counter_add" /\ last'.rc = OK) =>
             Reported(counters', counter_ids'[last'.flow].mae_id) =
                 [hits |-> 0, bytes |-> 0]]_vars

\* A query with reset has just returned a non-zero count of packets and has
\* moved the baseline up to the value.
C14_Witness ==
    /\ last.op = "counter_get"
    /\ last.arg.reset
    /\ last.arg.hits = 1
    /\ counters[last.arg.mae_counter_id].reset.pkts = 1
    /\ counters[last.arg.mae_counter_id].inuse

\* C15: whatever the interleaving of the control path (free of a counter id,
\* then allocation of the same id with a newer generation) with the
\* telemetry path, an update that carries a generation older than the one
\* the slot has been allocated with never changes the slot's value, and so
\* never the packets and bytes a query reports for the new allocation.
C15_StaleUpdateRejected ==
    [][(/\ last'.op = "increment_store"
        /\ counters[last'.arg.mae_counter_id].inuse
        /\ last'.arg.generation_count
               < counters[last'.arg.mae_counter_id].generation_count) =>
          Reported(counters', last'.arg.mae_counter_id) =
              Reported(counters, last'.arg.mae_counter_id)]_vars

\* A packet that has none of the defects that make the parser discard it.
WellFormed(m) ==
    /\ m.nb_segs = 1
    /\ m.data_len >= ER_RX_SL_PACKETISER_HEADER_WORD_SIZE
    /\ m.version = ERF_SC_PACKETISER_HEADER_VERSION_VALUE
    /\ m.id = ERF_SC_PACKETISER_HEADER_IDENTIFIER_AR
    /\ m.header_offset = ERF_SC_PACKETISER_HEADER_HEADER_OFFSET_DEFAULT
    /\ m.payload_offset
           + m.counter_count * ER_RX_SL_PACKETISER_PAYLOAD_WORD_SIZE
       <= m.data_len
    /\ m.payload_offset % 4 = 0

\* C16: a packet of the counter stream that is multi-segment, shorter than
\* the header, of an unexpected version, source identifier or header
\* offset, that declares more records than fit, or whose payload offset is
\* not a multiple of 4, is discarded before any of its records is applied:
\* the burst leaves the counter slots and statistics as the burst of its
\* well-formed packets alone leaves them.
C16_DamagedPacketDiscarded ==
    [][last'.op = "routine" =>
          LET sound == sfc_mae_counter_routine(
                           World, SelectSeq(last'.arg, WellFormed), {})
          IN /\ counters' = sound.counters
             /\ xstats' = sound.xstats
             /\ (\A i \in 1..Len(last'.arg) : ~WellFormed(last'.arg[i])) =>
                    counters' = counters /\ xstats' = xstats]_vars

\* A burst of a packet that declares more records than it holds, between
\* two well-formed packets, has raised the value of a slot in use and has
\* counted an update of a slot out of use.
C16_Witness ==
    /\ last.op = "routine"
    /\ Len(last.arg) = 3
    /\ WellFormed(last.arg[1])
    /\ ~WellFormed(last.arg[2])
    /\ last.arg[2].counter_count > Len(last.arg[2].data)
    /\ WellFormed(last.arg[3])
    /\ xstats.not_inuse_update = 1
    /\ \E c \in 0..(NCounters - 1) :
          counters[c].inuse /\ counters[c].value.pkts > counters[c].reset.pkts

\* The items of a pattern before its first tunnel item, and those after it.
OuterFrame(pattern) ==
    IF FirstTunnel(pattern) = 0 THEN pattern
    ELSE SubSeq(pattern, 1, FirstTunnel(pattern) - 1)

InnerFrame(pattern) ==
    IF FirstTunnel(pattern) = 0 THEN <<>>
    ELSE SubSeq(pattern, FirstTunnel(pattern) + 1, Len(pattern))

\* The value and mask an item declares for a field: nothing without a spec,
\* the flow API's default mask without a mask.
Declared(item, field) ==
    IF ~item.spec_set THEN [value |-> Zero(Len(item.spec[field])),
                            mask |-> Zero(Len(item.spec[field]))]
    ELSE [value |-> item.spec[field],
          mask |-> IF item.mask_set THEN item.mask[field]
                   ELSE rte_flow_item_mask[item.type][field]]

\* A frame whose L2 items are followed by an L3 item: the position of the
\* L3 item, the type its innermost L2 item declares, and its EtherType.
L3After(frame) ==
    {i \in 2..Len(frame) :
        /\ frame[i].type \in {"IPV4", "IPV6"}
        /\ \A j \in 1..(i - 1) : frame[j].type \in {"ETH", "VLAN"}}

InnermostL2Type(frame, i) ==
    Declared(frame[i - 1],
             IF frame[i - 1].type = "ETH" THEN "type" ELSE "inner_type")

L3EtherType(item) == IF item.type = "IPV4" THEN <<8, 0>> ELSE <<134, 221>>

\* The frames of a compiled pattern with the specification and the field
\* prefix each one compiles to.
FramesOf(arg) ==
    IF FirstTunnel(arg.pattern) = 0
    THEN {[frame |-> arg.pattern, prefix |-> "",
           spec |-> arg.match_spec_action]}
    ELSE {[frame |-> OuterFrame(arg.pattern), prefix |-> "ENC_",
           spec |-> arg.match_spec_outer],
          [frame |-> InnerFrame(arg.pattern), prefix |-> "",
           spec |-> arg.match_spec_action]}

LastFrames == FramesOf(last.arg)

Holds(spec, field, value, mask) ==
    /\ field \in DOMAIN spec
    /\ spec[field] = [value |-> value, mask |-> mask]

\* [ETH wildcard, IPV4 proto=TCP exact, TCP dst-port=80 exact], the ETH item
\* without a spec or with a zero type mask.
Pattern17 ==
    {<<e, Ipv4(6, 255), Tcp(80)>> : e \in {Bare("ETH"), Eth(0, Zero(2))}}

\* C17: when an L3 item follows the L2 items of a frame and the innermost L2
\* item's type is wildcard, a pattern that compiles has ETHER_TYPE set to the
\* L3 item's EtherType with full mask; when that type is specified and is not
\* an exact match of the EtherType, the pattern does not compile; and the
\* pattern [ETH wildcard, IPV4 proto=TCP, TCP dst-port=80] compiles to one
\* ACTION specification with IP_PROTO 6/0xff, L4_DPORT 80/0xffff and
\* ETHER_TYPE 0x0800/0xffff, no OUTER specification and no outer rule entry.
C17_EtherTypeResolved ==
    [][last'.op = "parse_pattern" =>
        /\ \A fr \in FramesOf(last'.arg) : \A i \in L3After(fr.frame) :
              LET l2 == InnermostL2Type(fr.frame, i)
              IN /\ (l2.mask = <<0, 0>> /\ last'.arg.items_rc = OK) =>
                        Holds(fr.spec, fr.prefix \o "ETHER_TYPE_BE",
                              L3EtherType(fr.frame[i]), <<255, 255>>)
                 /\ (/\ l2.mask # <<0, 0>>
                     /\ ~(/\ l2.mask = <<255, 255>>
                          /\ l2.value = L3EtherType(fr.frame[i]))) =>
                        (last'.arg.items_rc # OK /\ last'.rc # OK)
        /\ (/\ last'.arg.pattern \in Pattern17
            /\ last'.arg.verdict = "ok") =>
               /\ last'.rc = OK
               /\ Holds(last'.arg.match_spec_action, "IP_PROTO",
                        <<6>>, <<255>>)
               /\ Holds(last'.arg.match_spec_action, "L4_DPORT_BE",
                        <<0, 80>>, <<255, 255>>)
               /\ Holds(last'.arg.match_spec_action, "ETHER_TYPE_BE",
                        <<8, 0>>, <<255, 255>>)
               /\ \A id \in DOMAIN last'.arg.match_spec_action :
                     id \notin {"IP_PROTO", "L4_DPORT_BE", "ETHER_TYPE_BE"} =>
                        \A k \in DOMAIN last'.arg.match_spec_action[id].mask :
                           last'.arg.match_spec_action[id].mask[k] = 0
               /\ ~last'.arg.outer_set
               /\ flows'[last'.flow].match_spec
               /\ flows'[last'.flow].outer_rule = NULL
               /\ outer_rules' = outer_rules]_vars

C17_Witness ==
    /\ last.op = "parse_pattern"
    /\ last.arg.pattern \in Pattern17
    /\ ~last.arg.pattern[1].spec_set
    /\ last.rc = OK
    /\ Holds(last.arg.match_spec_action, "ETHER_TYPE_BE",
             <<8, 0>>, <<255, 255>>)
    /\ flows[last.flow].outer_rule = NULL

\* The positions of the L3 items of a frame, the next-protocol field of an
\* L3 item and the protocol an L4 item implies.
L3At(frame) == {i \in 1..Len(frame) : frame[i].type \in {"IPV4", "IPV6"}}

NextProto(item) ==
    Declared(item, IF item.type = "IPV4" THEN "next_proto_id" ELSE "proto")

HasL4(frame) == \E j \in 1..Len(frame) : frame[j].type \in {"TCP", "UDP"}

Implied(item) == IF item.type = "TCP" THEN 6 ELSE 17

\* C18: when a TCP or UDP item follows an L3 item, a pattern that compiles
\* has IP_PROTO set to the protocol the L4 item implies (TCP 6, UDP 17) with
\* mask 0xff, the L3 item's next protocol being absent or that exact value;
\* any other declared value and any partial mask make the compilation fail;
\* with no L4 item the declared value and mask are emitted unchanged.
C18_NextProtoResolved ==
    last.op = "parse_pattern" =>
        \A fr \in LastFrames : \A i \in L3At(fr.frame) :
            LET proto == NextProto(fr.frame[i])
            IN /\ (i < Len(fr.frame) /\ fr.frame[i + 1].type \in {"TCP", "UDP"})
                  => LET implied == Implied(fr.frame[i + 1])
                     IN IF \/ proto.mask = <<0>>
                           \/ (proto.mask = <<255>> /\ proto.value = <<implied>>)
                        THEN last.arg.items_rc = OK =>
                                 Holds(fr.spec, fr.prefix \o "IP_PROTO",
                                       <<implied>>, <<255>>)
                        ELSE /\ last.arg.items_rc # OK
                             /\ last.rc # OK
                             /\ ~flows[last.flow].match_spec
               /\ (~HasL4(fr.frame) /\ last.arg.items_rc = OK)
                  => Holds(fr.spec, fr.prefix \o "IP_PROTO",
                           proto.value, proto.mask)

C18_Witness ==
    /\ last.op = "parse_pattern"
    /\ last.rc = OK
    /\ last.arg.pattern = <<Bare("ETH"), Ipv4(17, 0), Bare("UDP")>>
    /\ Holds(last.arg.match_spec_action, "IP_PROTO", <<17>>, <<255>>)

\* [ETH, VLAN tci=X, IPV6, UDP, VXLAN vni=0x123456], the ETH item leaving its
\* type open or naming the VLAN TPID.
Pattern19 ==
    {<<e, DefaultMasked("VLAN", [tci |-> <<0, 5>>]), Bare("IPV6"),
       Bare("UDP"), Tunnel("VXLAN", <<18, 52, 86>>)>> :
        e \in {Bare("ETH"), Eth(33024, Ones(2))}}

\* C19: the pattern [ETH, VLAN tci=X, IPV6, UDP, VXLAN vni=0x123456]
\* compiles, and produces an OUTER specification that carries
\* VNET_ID_BE = 0x00123456/0x00ffffff together with an ACTION specification.
C19_VniInOuterSpec ==
    (/\ last.op = "parse_pattern"
     /\ last.arg.pattern \in Pattern19
     /\ last.arg.mae = MaeAll
     /\ last.arg.verdict = "ok") =>
        /\ last.rc = OK
        /\ last.arg.outer_set
        /\ Holds(last.arg.match_spec_outer, "ENC_VNET_ID_BE",
                 <<0, 18, 52, 86>>, <<0, 255, 255, 255>>)
        /\ flows[last.flow].match_spec

\* Calls of fn in a call log.
Count(calls, fn) == Cardinality({k \in 1..Len(calls) : calls[k].fn = fn})

\* The outer rule of flow f has encapsulation type VXLAN.
VxlanOuterRule(f) ==
    /\ flows[f].outer_rule # NULL
    /\ \E i \in 1..Len(outer_rules) :
          /\ outer_rules[i].ptr = flows[f].outer_rule
          /\ outer_rules[i].encap_type = "VXLAN"

\* C20: an action list with VXLAN_DECAP is accepted only when the flow's
\* pattern produced an outer rule of encapsulation type VXLAN; with no outer
\* rule or with a GENEVE or NVGRE one the compilation fails with EINVAL, the
\* action specification it initialised is finalised, and the action set and
\* encap header registries stay as they were, refcounts included.
C20_DecapNeedsVxlanOuterRule ==
    [][(last'.op = "parse_actions" /\ last'.arg.actions.decap) =>
          /\ last'.rc = OK => VxlanOuterRule(last'.flow)
          /\ ~VxlanOuterRule(last'.flow) =>
                /\ last'.rc = "EINVAL"
                /\ Count(last'.calls, "efx_mae_action_set_spec_init") = 1
                /\ Count(last'.calls, "efx_mae_action_set_spec_fini") = 1
                /\ action_sets' = action_sets
                /\ encap_headers' = encap_headers
                /\ flows'[last'.flow].action_set = NULL]_vars

C20_Witness ==
    /\ last.op = "parse_actions"
    /\ last.arg.actions.decap
    /\ last.arg.actions.eh # "none"
    /\ last.arg.verdict = "ok"
    /\ last.rc = "EINVAL"
    /\ flows[last.flow].outer_rule # NULL
    /\ \E i \in 1..Len(outer_rules) :
          /\ outer_rules[i].ptr = flows[last.flow].outer_rule
          /\ outer_rules[i].encap_type = "GENEVE"
    /\ \E i \in 1..Len(action_sets) : action_sets[i].encap_header # NULL

\* The type of the first tunnel item of a pattern, NONE without one.
LookaheadType(pattern) ==
    IF FirstTunnel(pattern) = 0 THEN EFX_TUNNEL_PROTOCOL_NONE
    ELSE pattern[FirstTunnel(pattern)].type

\* The calls of a handler that insert an outer rule into the device.
OuterInserts(calls) ==
    {k \in 1..Len(calls) : calls[k].fn = "efx_mae_outer_rule_insert"}

\* C21: a compiled pattern with a tunnel item leaves the flow with an outer
\* rule entry whose encapsulation type is the type of the first tunnel item,
\* and that entry's type is what an outer rule insert hands to the device;
\* the compilation is rejected when the type is not among the adapter's
\* supported types or the priority is not below the outer rule priority
\* limit; a pattern without a tunnel item leaves the flow without an outer
\* rule and the outer rule registry as it was.
C21_EncapTypeOfFirstTunnelItem ==
    [][/\ last'.op = "parse_pattern" =>
          LET a == last'.arg
              f == last'.flow
              type == LookaheadType(a.pattern)
          IN /\ type = EFX_TUNNEL_PROTOCOL_NONE =>
                   /\ flows'[f].outer_rule = NULL
                   /\ outer_rules' = outer_rules
             /\ (type # EFX_TUNNEL_PROTOCOL_NONE /\ last'.rc = OK) =>
                   /\ type \in {"VXLAN", "GENEVE", "NVGRE"}
                   /\ Has(outer_rules', flows'[f].outer_rule)
                   /\ Ent(outer_rules', flows'[f].outer_rule).encap_type
                          = type
                   /\ flows'[f].pattern.encap_type = type
             /\ (/\ type # EFX_TUNNEL_PROTOCOL_NONE
                 /\ \/ type \notin a.mae.encap_types_supported
                    \/ 0 >= a.mae.nb_outer_rule_prios_max) =>
                   /\ last'.rc = "ENOTSUP"
                   /\ flows'[f].outer_rule = NULL
                   /\ outer_rules' = outer_rules
       /\ last'.op = "insert" =>
          \A k \in OuterInserts(last'.calls) :
             /\ last'.calls[k].ent = flows[last'.flow].outer_rule
             /\ Ent(outer_rules, last'.calls[k].ent).encap_type
                    = flows[last'.flow].pattern.encap_type
             /\ flows[last'.flow].pattern.encap_type
                    \in {"VXLAN", "GENEVE", "NVGRE"}
       /\ \A i \in 1..Len(outer_rules) : \A j \in 1..Len(outer_rules') :
             outer_rules[i].ptr = outer_rules'[j].ptr =>
                outer_rules[i].encap_type = outer_rules'[j].encap_type]_vars

\* A flow compiled from a pattern whose first tunnel item is GENEVE, in an
\* adapter that also keeps a VXLAN outer rule, has had its outer rule
\* inserted into the device.
C21_Witness ==
    /\ last.op = "insert"
    /\ last.rc = OK
    /\ OuterInserts(last.calls) # {}
    /\ flows[last.flow].pattern.encap_type = "GENEVE"
    /\ Ent(outer_rules, flows[last.flow].outer_rule).encap_type = "GENEVE"
    /\ \E g \in Flows \ {last.flow} :
          /\ flows[g].outer_rule # NULL
          /\ Ent(outer_rules, flows[g].outer_rule).encap_type = "VXLAN"

\* The items of a definition that are not VOID, and the offset of the k-th
\* of them in the header.
NonVoid(definition) == SelectSeq(definition, LAMBDA it : it.type # "VOID")

RECURSIVE LayersSize(_, _)
LayersSize(items, k) ==
    IF k = 0 THEN 0
    ELSE LayersSize(items, k - 1)
         + (IF items[k].type \in DOMAIN proto_header_size
            THEN proto_header_size[items[k].type] ELSE 0)

\* C22: in the header of an accepted VXLAN_ENCAP definition, every bit that
\* an item's mask sets holds the bit of that item's spec, and every bit the
\* mask leaves clear holds what the parser had assembled (the copied spec
\* or the field it computed) before the masks were applied.
C22_MaskedBitsAreSpecBits ==
    (last.op = "vxlan_encap" /\ last.rc = OK) =>
       LET items == NonVoid(last.arg.conf.definition)
       IN \A k \in 1..Len(items) :
             \A j \in 1..proto_header_size[items[k].type] :
                LET at == LayersSize(items, k - 1) + j
                    mask == items[k].mask[j]
                IN /\ BitAnd(last.arg.buf[at], mask)
                        = BitAnd(items[k].spec[j], mask)
                   /\ BitAnd(last.arg.buf[at], BitNot(mask))
                        = BitAnd(last.arg.assembled[at], BitNot(mask))

\* An IPV4 item whose mask covers the TTL, under which the parser had
\* written its default TTL, and a VXLAN item whose mask is clear, so that
\* the computed flags stay.
C22_Witness ==
    /\ last.op = "vxlan_encap"
    /\ last.rc = OK
    /\ LET items == NonVoid(last.arg.conf.definition)
       IN /\ Len(items) = 4
          /\ items[2].type = "IPV4"
          /\ items[2].mask[9] = 255
          /\ last.arg.assembled[14 + 9] = SFC_IPV4_TTL_DEF
          /\ last.arg.buf[14 + 9] = items[2].spec[9]
          /\ items[2].spec[9] # SFC_IPV4_TTL_DEF
          /\ items[4].mask[1] = 0
          /\ items[4].spec[1] # 8
          /\ last.arg.buf[14 + 20 + 8 + 1] = 8

\* ETH, zero to two VLAN, IPV4 or IPV6, UDP, VXLAN.
IsEncapSequence(items) ==
    LET n == Len(items)
    IN /\ n \in 4..6
       /\ items[1].type = "ETH"
       /\ \A k \in 2..(n - 3) : items[k].type = "VLAN"
       /\ items[n - 2].type \in {"IPV4", "IPV6"}
       /\ items[n - 1].type = "UDP"
       /\ items[n].type = "VXLAN"

EncapAcceptable(conf, buf_size) ==
    /\ conf.definition_set
    /\ \A k \in 1..Len(conf.definition) :
          /\ conf.definition[k].spec_set
          /\ conf.definition[k].mask_set
          /\ ~conf.definition[k].last_set
    /\ IsEncapSequence(NonVoid(conf.definition))
    /\ LayersSize(NonVoid(conf.definition),
                  Len(NonVoid(conf.definition))) <= buf_size

\* C29: a VXLAN_ENCAP definition is accepted only when it is given, every
\* item has a spec and a mask and no range, the items other than VOID are
\* ETH, at most two VLAN, one of IPV4 and IPV6, UDP and VXLAN in this order,
\* and the layers fit the bounce buffer; every other definition is refused
\* with an error code, and the size recorded for an accepted one is the sum
\* of the sizes of its layers.
C29_EncapDefinitionShape ==
    last.op = "vxlan_encap" =>
       /\ last.rc = OK =>
             /\ EncapAcceptable(last.arg.conf, last.arg.buf_size)
             /\ last.arg.size =
                   LayersSize(NonVoid(last.arg.conf.definition),
                              Len(NonVoid(last.arg.conf.definition)))
             /\ Len(last.arg.buf) = last.arg.size
       /\ ~EncapAcceptable(last.arg.conf, last.arg.buf_size) =>
             last.rc \in {"EINVAL", "ENOTSUP", "E2BIG"}

\* An accepted definition with two VLAN items and a VOID item that fills
\* the bounce buffer to its last byte.
C29_Witness ==
    /\ last.op = "vxlan_encap"
    /\ last.rc = OK
    /\ \E k \in 1..Len(last.arg.conf.definition) :
          last.arg.conf.definition[k].type = "VOID"
    /\ Len(NonVoid(last.arg.conf.definition)) = 6
    /\ last.arg.size = 58
    /\ last.arg.buf_size = 58

\* The first action of the run of bundle actions that action i is in: a run
\* starts at the head of the list, after an action that is not a bundle
\* action, and at an action whose type the run already has.
RECURSIVE RunStart(_, _)
RunStart(actions, i) ==
    IF i = 1 \/ actions[i - 1].type \notin BundleActions THEN i
    ELSE LET s == RunStart(actions, i - 1)
         IN IF \E k \in s..(i - 1) : actions[k].type = actions[i].type
            THEN i ELSE s

RunEnd(actions, i) ==
    /\ actions[i].type \in BundleActions
    /\ \/ i = Len(actions)
       \/ actions[i + 1].type \notin BundleActions
       \/ RunStart(actions, i + 1) = i + 1

RunConf(actions, i, type) ==
    LET at == {k \in RunStart(actions, i)..i : actions[k].type = type}
    IN IF at = {} THEN 0 ELSE actions[CHOOSE k \in at : TRUE].conf

\* The one VLAN push a run that ends at action i stands for.
RunPush(actions, i) ==
    [type |-> "VLAN_PUSH",
     tpid |-> RunConf(actions, i, "OF_PUSH_VLAN"),
     tci |-> (RunConf(actions, i, "OF_SET_VLAN_VID") % 4096)
             + (RunConf(actions, i, "OF_SET_VLAN_PCP") % 8) * 8192]

\* The hardware actions of the first n actions of a list, in order: one
\* VLAN push per run, at the place of the last action of the run.
RECURSIVE RunsFolded(_, _)
RunsFolded(actions, n) ==
    IF n = 0 THEN <<>>
    ELSE RunsFolded(actions, n - 1)
         \o (IF actions[n].type \notin BundleActions THEN <<actions[n]>>
             ELSE IF RunEnd(actions, n) THEN <<RunPush(actions, n)>>
             ELSE <<>>)

IsPrefix(s, t) == Len(s) <= Len(t) /\ \A k \in 1..Len(s) : s[k] = t[k]

VlanPushCalls(calls) ==
    {k \in 1..Len(calls) :
        calls[k].fn = "efx_mae_action_set_populate_vlan_push"}

\* C23: the action set specification of a parsed action list holds, in the
\* order of the list, one VLAN push for each maximal run of OF_PUSH_VLAN,
\* OF_SET_VLAN_VID and OF_SET_VLAN_PCP actions (a run also ends where an
\* action type repeats) with the TPID and TCI of the run, placed before the
\* hardware action of every later action of the list; a parse that stops
\* early has populated a prefix of that, and VLAN push was called once per
\* populated VLAN push, plus the one call that failed.
C23_OneVlanPushPerRun ==
    last.op = "parse_action_items" =>
        LET actions == last.arg.actions
            folded == RunsFolded(actions, Len(actions))
            pushed == {k \in 1..Len(last.arg.spec) :
                          last.arg.spec[k].type = "VLAN_PUSH"}
            failed == {k \in VlanPushCalls(last.calls) :
                          last.calls[k].rc # OK}
        IN /\ IsPrefix(last.arg.spec, folded)
           /\ last.rc = OK => last.arg.spec = folded
           /\ Cardinality(VlanPushCalls(last.calls))
                 = Cardinality(pushed) + Cardinality(failed)
           /\ Cardinality(failed) <= 1
           /\ failed # {} => last.rc # OK

C23_Witness ==
    /\ last.op = "parse_action_items"
    /\ last.rc = OK
    /\ Len(last.arg.actions) = 4
    /\ last.arg.actions[1].type = "OF_PUSH_VLAN"
    /\ last.arg.actions[2].type = "OF_SET_VLAN_VID"
    /\ last.arg.actions[3].type = "OF_SET_VLAN_VID"
    /\ last.arg.actions[4].type = "FLAG"
    /\ Len(last.arg.spec) = 3
    /\ last.arg.spec[1] = [type |-> "VLAN_PUSH", tpid |-> 33024, tci |-> 5]
    /\ last.arg.spec[2] = [type |-> "VLAN_PUSH", tpid |-> 0, tci |-> 5]
    /\ last.arg.spec[3].type = "FLAG"

\* The device answered the rule removal of the step with "no such rule".
RuleAlreadyRemoved(calls) ==
    \E k \in 1..Len(calls) :
       /\ calls[k].fn = "efx_mae_action_rule_remove"
       /\ calls[k].rc = "ENOENT"

\* C24: a remove to which the device answers that the hardware rule is
\* already removed leaves the flow's rule id invalid and goes on to disable
\* the action set and, for a tunnel flow, the outer rule: each loses one
\* hardware reference.
C24_AlreadyRemovedIsSuccess ==
    [][(last'.op = "remove" /\ RuleAlreadyRemoved(last'.calls)) =>
          LET spec_mae == flows[last'.flow]
          IN /\ flows'[last'.flow].rule_id = EFX_MAE_RSRC_ID_INVALID
             /\ Ent(action_sets', spec_mae.action_set).fw_refcnt
                   = Ent(action_sets, spec_mae.action_set).fw_refcnt - 1
             /\ spec_mae.outer_rule # NULL =>
                   Ent(outer_rules', spec_mae.outer_rule).fw_refcnt
                      = Ent(outer_rules, spec_mae.outer_rule).fw_refcnt - 1]_vars

\* A device call of sfc_mae_action_set_disable failed.
ActionSetDisableFailed(calls) ==
    \E k \in 1..Len(calls) :
       /\ calls[k].fn \in {"efx_mae_action_set_free", "efx_mae_counters_free",
                           "efx_mae_encap_header_free"}
       /\ calls[k].rc # OK

\* C25: a remove whose action set disable fails still disables the outer
\* rule of a tunnel flow (it loses one hardware reference) and returns an
\* error to its caller.
C25_DisableFailurePropagated ==
    [][(last'.op = "remove" /\ ActionSetDisableFailed(last'.calls)) =>
          LET spec_mae == flows[last'.flow]
          IN /\ last'.rc # OK
             /\ spec_mae.outer_rule # NULL =>
                   Ent(outer_rules', spec_mae.outer_rule).fw_refcnt
                      = Ent(outer_rules, spec_mae.outer_rule).fw_refcnt - 1]_vars

\* C26: beside the steps of the telemetry thread, (a) the accumulated value
\* of a slot changes only in the store of an accepted update, which adds
\* exactly the update's packets and bytes to it; (b) the baseline changes
\* only in the add and in a reset query of the control thread; and (c) when
\* a reset query returns, what the reset queries of the counter have
\* returned since its add sums up to the value that query read less the
\* baseline the add left, so to the deltas stored before that read.
C26_ResetQueriesSumToDeltas ==
    [][/\ \A c \in 0..(NCounters - 1) :
             /\ counters'[c].value # counters[c].value =>
                   /\ last'.op = "increment_store"
                   /\ c = pc.telemetry.mae_counter_id
             /\ counters'[c].reset # counters[c].reset =>
                   last'.op \in {"add_reset", "get_data"}
       /\ last'.op = "increment_store" =>
             LET c == pc.telemetry.mae_counter_id
             IN counters'[c].value =
                   [pkts |-> counters[c].value.pkts + pc.telemetry.pkts,
                    bytes |-> counters[c].value.bytes + pc.telemetry.bytes]
       /\ (last'.op = "get_data" /\ last'.arg.reset) =>
             LET h == pc'.control
             IN /\ h.read = pc.control.value
                /\ h.returned.pkts = h.read.pkts - h.base.pkts
                /\ h.returned.bytes = h.read.bytes - h.base.bytes]_vars

\* The second reset query of a counter returns while an update is between
\* its load and its store.
C26_Witness ==
    /\ last.op = "get_data" /\ last.arg.reset
    /\ last.arg.hits > 0
    /\ pc.control.returned.pkts > last.arg.hits
    /\ pc.telemetry.at = "store"
    /\ pc.telemetry.mae_counter_id = last.arg.mae_counter_id
    /\ pc.telemetry.pkts > 0

\* The L2 items of a frame that a VLAN item follows, with the number of
\* VLAN items of the frame.
VlanTags(frame) == {i \in 1..Len(frame) : frame[i].type = "VLAN"}

BeforeVlan(frame) ==
    {i \in 1..(Len(frame) - 1) :
        frame[i].type \in {"ETH", "VLAN"} /\ frame[i + 1].type = "VLAN"}

L2Type(item) ==
    Declared(item, IF item.type = "ETH" THEN "type" ELSE "inner_type")

DoubleTaggingTpids ==
    {RTE_BE16(RTE_ETHER_TYPE_QINQ), RTE_BE16(RTE_ETHER_TYPE_QINQ1),
     RTE_BE16(RTE_ETHER_TYPE_QINQ2), RTE_BE16(RTE_ETHER_TYPE_QINQ3)}

\* The TPIDs item i of the frame may name: any supported one before a single
\* tag; with two tags a double-tagging one in the ETH item and 0x8100 in the
\* outer VLAN item.
TpidsAt(frame, i) ==
    IF Cardinality(VlanTags(frame)) = 1
    THEN {RTE_BE16(RTE_ETHER_TYPE_VLAN)} \cup DoubleTaggingTpids
    ELSE IF frame[i].type = "ETH" THEN DoubleTaggingTpids
    ELSE {RTE_BE16(RTE_ETHER_TYPE_VLAN)}

TpidAcceptable(frame, i) ==
    \/ L2Type(frame[i]).mask = Zero(2)
    \/ /\ L2Type(frame[i]).mask = Ones(2)
       /\ L2Type(frame[i]).value \in TpidsAt(frame, i)

\* A frame of an ETH item and VLAN items only, or of these and one L3 item
\* without a spec.
L2Frame(frame) ==
    /\ Len(frame) >= 2
    /\ frame[1].type = "ETH"
    /\ \A i \in 2..(Len(frame) - 1) : frame[i].type = "VLAN"
    /\ \/ frame[Len(frame)].type = "VLAN"
       \/ /\ frame[Len(frame)] \in {Bare("IPV4"), Bare("IPV6")}
          /\ L2Type(frame[Len(frame) - 1]).mask = Zero(2)

\* C27: a frame with a third VLAN item is rejected; a frame in which the
\* type of an L2 item before a VLAN item is neither absent nor a supported
\* TPID of its place is rejected; and a frame of an ETH item, one or two
\* VLAN items and at most a bare L3 item is accepted when every such type is
\* absent or a supported TPID of its place.
C27_VlanTagsAndTpids ==
    (last.op = "parse_pattern" /\ last.arg.verdict = "ok"
     /\ last.arg.mae = MaeAll) =>
        \A fr \in LastFrames :
            /\ Cardinality(VlanTags(fr.frame)) > SFC_MAE_MATCH_VLAN_MAX_NTAGS
                  => last.arg.items_rc # OK
            /\ (\E i \in BeforeVlan(fr.frame) : ~TpidAcceptable(fr.frame, i))
                  => last.arg.items_rc # OK
            /\ (/\ FirstTunnel(last.arg.pattern) = 0
                /\ L2Frame(fr.frame)
                /\ Cardinality(VlanTags(fr.frame))
                      \in 1..SFC_MAE_MATCH_VLAN_MAX_NTAGS
                /\ \A i \in BeforeVlan(fr.frame) :
                      TpidAcceptable(fr.frame, i))
                  => last.arg.items_rc = OK

\* The match specification handles alive after the calls k.. of a log made
\* with the handles live alive, and whether every init handed out a handle
\* not alive and every fini was given a handle alive.
RECURSIVE MatchSpecReplay(_, _, _)
MatchSpecReplay(live, calls, k) ==
    IF k > Len(calls) THEN [ok |-> TRUE, live |-> live]
    ELSE IF calls[k].fn = "efx_mae_match_spec_init" /\ calls[k].rc = OK
    THEN IF calls[k].ent \in live THEN [ok |-> FALSE, live |-> live]
         ELSE MatchSpecReplay(live \cup {calls[k].ent}, calls, k + 1)
    ELSE IF calls[k].fn = "efx_mae_match_spec_fini"
    THEN IF calls[k].ent \notin live THEN [ok |-> FALSE, live |-> live]
         ELSE MatchSpecReplay(live \ {calls[k].ent}, calls, k + 1)
    ELSE MatchSpecReplay(live, calls, k + 1)

\* The handles the flows and the outer rule entries hold.
HeldByFlows(fl) ==
    {fl[f].match_spec_id : f \in {g \in Flows : fl[g].match_spec}}

HeldByOuterRules(q) == {q[i].match_spec_id : i \in 1..Len(q)}

OuterOpened(calls) ==
    \E k \in 1..Len(calls) :
       /\ calls[k].fn = "efx_mae_match_spec_init"
       /\ calls[k].by = "sfc_mae_rule_encap_parse_init"
       /\ calls[k].rc = OK

FiniCalls(calls, id) ==
    {k \in 1..Len(calls) :
        calls[k].fn = "efx_mae_match_spec_fini" /\ calls[k].ent = id}

\* C28: in every step no match specification is finalised twice or after
\* its release, and afterwards the handles alive are those of the compiled
\* flows and of the outer rule entries, each held once and every entry
\* referenced by a flow; a pattern compilation that fails after the OUTER
\* specification was opened has finalised the ACTION specification once, and
\* the OUTER specification once unless an outer rule entry of the failed
\* flow holds it; the cleanup of a flow leaves none of its handles alive.
C28_NoSpecLeakedOrFinalisedTwice ==
    [][LET replay == MatchSpecReplay(dev.mspec, last'.calls, 1)
           f == last'.flow
       IN /\ replay.ok
          /\ replay.live = dev'.mspec
          /\ dev'.mspec = HeldByFlows(flows') \cup HeldByOuterRules(outer_rules')
          /\ Cardinality(dev'.mspec)
                = Cardinality({g \in Flows : flows'[g].match_spec})
                  + Len(outer_rules')
          /\ \A i \in 1..Len(outer_rules') :
                \E g \in Flows : flows'[g].outer_rule = outer_rules'[i].ptr
          /\ (last'.op = "parse_pattern" /\ last'.rc # OK
              /\ OuterOpened(last'.calls)) =>
                \A k \in 1..Len(last'.calls) :
                   (last'.calls[k].fn = "efx_mae_match_spec_init"
                    /\ last'.calls[k].rc = OK) =>
                      LET id == last'.calls[k].ent
                          n == Cardinality(FiniCalls(last'.calls, id))
                      IN IF last'.calls[k].by = "sfc_mae_rule_parse_pattern"
                         THEN n = 1 /\ ~flows'[f].match_spec
                         ELSE \/ n = 1 /\ id \notin dev'.mspec
                              \/ /\ n = 0
                                 /\ flows'[f].outer_rule # NULL
                                 /\ Ent(outer_rules', flows'[f].outer_rule)
                                       .match_spec_id = id
          /\ last'.op = "cleanup" =>
                /\ ~flows'[f].match_spec
                /\ flows'[f].outer_rule = NULL
                /\ flows[f].match_spec =>
                      flows[f].match_spec_id \notin dev'.mspec]_vars

\* A compilation that failed in the validation of the ACTION specification
\* after a new outer rule entry took the OUTER specification.
C28_Witness ==
    /\ last.op = "parse_pattern"
    /\ last.rc # OK
    /\ OuterOpened(last.calls)
    /\ flows[last.flow].outer_rule # NULL
    /\ Ent(outer_rules, flows[last.flow].outer_rule).refcnt = 1
    /\ Ent(outer_rules, flows[last.flow].outer_rule).match_spec_id
          \in dev.mspec
    /\ ~flows[last.flow].match_spec

GiveCredits(calls) ==
    {k \in 1..Len(calls) :
        calls[k].fn = "efx_mae_counters_stream_give_credits"}

\* C30: a run of the service routine returns 0; it gives credits, once, if
\* and only if credits are in use and the buffers pushed since the recorded
\* count are at least the refill level; when the device takes them, the
\* recorded count becomes the current pushed count and the credits given in
\* all add up to all the buffers ever pushed; when it refuses them or none
\* are given, the recorded count and the credits stay as they were; and the
\* credits given never exceed the buffers pushed.
C30_CreditsOncePerBuffer ==
    [][/\ last'.op = "routine" =>
             LET pushed_diff ==
                     (dev.pushed - counter_registry.pushed_n_buffers
                      + UINT_RANGE) % UINT_RANGE
                 gives == GiveCredits(last'.calls)
             IN /\ last'.rc = OK
                /\ Cardinality(gives) <= 1
                /\ (gives # {}) <=>
                      (/\ counter_registry.use_credits
                       /\ pushed_diff >= SFC_COUNTER_RXQ_REFILL_LEVEL)
                /\ IF \E k \in gives : last'.calls[k].rc = OK
                   THEN /\ counter_registry'.pushed_n_buffers = dev.pushed
                        /\ dev'.credits = dev.credits + pushed_diff
                        /\ dev'.credits = dev.pushed_total
                   ELSE /\ counter_registry' = counter_registry
                        /\ dev'.credits = dev.credits
       /\ dev'.credits <= dev'.pushed_total]_vars

\* The device refuses the credits of a run after it took credits before and
\* the pushed count wrapped around.
C30_Witness ==
    /\ last.op = "routine"
    /\ \E k \in GiveCredits(last.calls) : last.calls[k].rc # OK
    /\ dev.credits >= SFC_COUNTER_RXQ_REFILL_LEVEL
    /\ dev.pushed_total - dev.credits >= SFC_COUNTER_RXQ_REFILL_LEVEL
    /\ dev.pushed_total >= UINT_RANGE
    /\ dev.pushed < counter_registry.pushed_n_buffers

\* C31: sfc_mae_counter_stop always terminates: once it has cleared the run
\* states it polls at most wait_ms times, and then, whether or not the
\* service went inactive, it unmaps and unregisters the service, stops the
\* counter stream and marks the counter queue as not running; on a queue
\* that is not running it does nothing.
StopUnderWay == pc.control.at \in {"stop_poll", "stop_unmap"}

StopDone ==
    /\ pc.control.at = "idle"
    /\ ~counter_rxq_running

StopTail ==
    <<"rte_service_map_lcore_set", "rte_service_component_unregister",
      "efx_mae_counters_stream_stop">>

C31_StopTerminates ==
    /\ StopUnderWay ~> StopDone
    /\ [](pc.control.at = "stop_poll" => pc.control.i <= wait_ms)
    /\ [][(pc.control.at = "stop_unmap" /\ pc'.control.at # "stop_unmap")
              => /\ StopDone'
                 /\ [k \in 1..Len(last'.calls) |-> last'.calls[k].fn] = StopTail
                 /\ last'.arg.polls <= wait_ms]_vars
    /\ [][(last'.op = "counter_stop" /\ ~counter_rxq_running
               /\ pc.control.at = "idle")
              => /\ last'.calls = <<>>
                 /\ UNCHANGED <<counter_rxq_running, counter_registry, dev,
                                pc, counters, xstats>>]_vars

C31_Witness ==
    /\ last.op = "counter_stop"
    /\ ~last.arg.skipped
    /\ last.arg.polls = wait_ms
    /\ ~last.arg.quiesced
    /\ StopDone

\* C32: the rule id of a flow is valid exactly while the flow is inserted.
\* It is EFX_MAE_RSRC_ID_INVALID when the compilation ends; an insert runs
\* on an invalid id and an action set, and makes the id valid exactly when
\* it succeeds; a remove runs on a valid id, and makes it invalid exactly
\* when its efx_mae_action_rule_remove call succeeded; a cleanup runs on an
\* invalid id; no other handler touches the id.
RuleIdValid(s) == s.rule_id # EFX_MAE_RSRC_ID_INVALID

RuleRemoveFailed == last'.calls # <<>> /\ last'.calls[1].rc # OK

RuleIdStep(f) ==
    CASE last'.op = "parse_actions" /\ last'.flow = f ->
             ~RuleIdValid(flows'[f])
      [] last'.op = "insert" /\ last'.flow = f ->
             /\ ~RuleIdValid(flows[f])
             /\ flows[f].action_set # NULL
             /\ RuleIdValid(flows'[f]) <=> (last'.rc = OK)
             /\ RuleIdValid(flows'[f]) => flows'[f].rule_id \in dev'.rule
      [] last'.op = "remove" /\ last'.flow = f ->
             /\ RuleIdValid(flows[f])
             /\ IF RuleRemoveFailed
                THEN flows'[f].rule_id = flows[f].rule_id
                ELSE ~RuleIdValid(flows'[f])
             /\ last'.rc = OK => ~RuleIdValid(flows'[f])
      [] last'.op = "cleanup" /\ last'.flow = f ->
             /\ ~RuleIdValid(flows[f])
             /\ ~RuleIdValid(flows'[f])
      [] OTHER -> flows'[f].rule_id = flows[f].rule_id

C32_RuleIdValidWhileInserted == [][\A f \in Flows : RuleIdStep(f)]_vars

C32_Witness ==
    /\ last.op = "remove"
    /\ last.calls[1].fn = "efx_mae_action_rule_remove"
    /\ last.calls[1].rc = "EIO"
    /\ RuleIdValid(flows[last.flow])
    /\ flows[last.flow].rule_id \in dev.rule

\* C33: a hardware counter allocated by enabling an action set with COUNT is
\* freed exactly once.  While no device call has failed: the counter id of
\* an action set that is not enabled is EFX_MAE_RSRC_ID_INVALID, and the
\* cleanup that releases the action set neither calls efx_mae_counters_free
\* nor clears the in-use flag of a slot that an enabled action set names.
EnabledNames(c) ==
    \E i \in 1..Len(action_sets) :
        /\ action_sets[i].fw_refcnt > 0
        /\ action_sets[i].n_counters > 0
        /\ action_sets[i].counters[1].mae_id = c

BindingResetByFree ==
    faults = 0 =>
        \A i \in 1..Len(action_sets) :
            (action_sets[i].fw_refcnt = 0 /\ action_sets[i].n_counters > 0)
                => action_sets[i].counters[1].mae_id
                       = EFX_MAE_RSRC_ID_INVALID

NoFreeOnRelease ==
    (faults = 0 /\ last'.op = "cleanup") =>
        /\ Count(last'.calls, "efx_mae_counters_free") = 0
        /\ \A c \in 0..(NCounters - 1) :
               (counters[c].inuse /\ EnabledNames(c)) => counters'[c].inuse

C33_CounterFreedOnce == []BindingResetByFree /\ [][NoFreeOnRelease]_vars

\* C34: the telemetry path and the allocation stay inside the array of
\* counter slots.  A sound packet whose record names an index at or beyond
\* n_mae_counters changes no slot, no statistic and nothing of the memory
\* that follows the array (the record does not reach
\* sfc_mae_counter_increment); an allocation that gets an id at or beyond
\* n_mae_counters fails, changes no slot and frees the id again.
RecordBeyondArray ==
    /\ last'.op = "routine"
    /\ last'.arg.m.data[1].counter_index >= NCounters

AllocBeyondArray ==
    /\ last'.op = "counter_add"
    /\ last'.calls # <<>>
    /\ last'.calls[1].fn = "efx_mae_counters_alloc"
    /\ last'.calls[1].rc = OK
    /\ last'.calls[1].ent >= NCounters

C34_SlotsInsideArray ==
    [][/\ RecordBeyondArray =>
              /\ UNCHANGED <<counters, xstats>>
              /\ last'.arg.after = last'.arg.beyond
       /\ AllocBeyondArray =>
              /\ last'.rc # OK
              /\ UNCHANGED <<counters, counter_ids>>
              /\ dev'.counter = dev.counter
              /\ Len(last'.calls) = 2
              /\ last'.calls[2].fn = "efx_mae_counters_free"
              /\ last'.calls[2].ent = last'.calls[1].ent
              /\ last'.calls[2].rc = OK]_vars

\* C35: after any sequence of successful compile, insert, remove and
\* cleanup operations the hardware-enable refcount of every outer rule and
\* of every action set equals the number of inserted flows that reference
\* the entry, and so never exceeds the entry's refcount.  Stated as a step:
\* an operation that returns 0 keeps the equality.
FwRefcntCountsInserted ==
    /\ \A i \in 1..Len(outer_rules) :
          /\ outer_rules[i].fw_refcnt
                 = Cardinality(Inserted("outer_rule", outer_rules[i].ptr))
          /\ outer_rules[i].fw_refcnt <= outer_rules[i].refcnt
    /\ \A i \in 1..Len(action_sets) :
          /\ action_sets[i].fw_refcnt
                 = Cardinality(Inserted("action_set", action_sets[i].ptr))
          /\ action_sets[i].fw_refcnt <= action_sets[i].refcnt

C35_FwRefcntEqualsInsertedFlows ==
    [][(FwRefcntCountsInserted /\ last'.rc = OK)
           => FwRefcntCountsInserted']_vars

\* C36: after every completed compile, insert, remove or cleanup, the
\* refcount of each encap header equals the number of action sets of the
\* registry that reference it, and its hardware-enable refcount equals the
\* number of those action sets that are enabled.
ActionSetsOf(eh) ==
    {i \in 1..Len(action_sets) : action_sets[i].encap_header = eh}

EnabledActionSetsOf(eh) ==
    {i \in ActionSetsOf(eh) : action_sets[i].fw_refcnt # 0}

EhRefcntCountsActionSets ==
    \A i \in 1..Len(encap_headers) :
        encap_headers[i].refcnt
            = Cardinality(ActionSetsOf(encap_headers[i].ptr))

EhFwRefcntCountsEnabled ==
    \A i \in 1..Len(encap_headers) :
        encap_headers[i].fw_refcnt
            = Cardinality(EnabledActionSetsOf(encap_headers[i].ptr))

C36_EncapHeaderRefcounts ==
    EhRefcntCountsActionSets /\ EhFwRefcntCountsEnabled

\* C37: a disable that returns an error leaves the hardware state of its
\* entry as it was.  In a remove, whose disables start from the entries as
\* they were before it: when efx_mae_outer_rule_remove fails the outer rule
\* keeps its hardware-enable refcount and rule id; when
\* efx_mae_encap_header_free fails the encap header keeps its refcount and
\* header id; when efx_mae_action_set_free or a cascaded counter or encap
\* header disable fails the action set keeps its refcount and action set id.
CallFailed(calls, fn) ==
    \E k \in 1..Len(calls) : calls[k].fn = fn /\ calls[k].rc # OK

FwRsrc(e, id) == <<e.fw_refcnt, e[id]>>

OuterRuleDisableKeeps(spec_mae) ==
    (spec_mae.outer_rule # NULL
         /\ CallFailed(last'.calls, "efx_mae_outer_rule_remove")) =>
        FwRsrc(Ent(outer_rules', spec_mae.outer_rule), "rule_id")
            = FwRsrc(Ent(outer_rules, spec_mae.outer_rule), "rule_id")

EncapHeaderDisableKeeps(eh) ==
    (eh # NULL /\ CallFailed(last'.calls, "efx_mae_encap_header_free")) =>
        FwRsrc(Ent(encap_headers', eh), "eh_id")
            = FwRsrc(Ent(encap_headers, eh), "eh_id")

ActionSetDisableKeeps(spec_mae) ==
    ActionSetDisableFailed(last'.calls) =>
        FwRsrc(Ent(action_sets', spec_mae.action_set), "aset_id")
            = FwRsrc(Ent(action_sets, spec_mae.action_set), "aset_id")

C37_FailedDisableKeepsHardwareState ==
    [][last'.op = "remove" =>
          LET spec_mae == flows[last'.flow]
          IN /\ OuterRuleDisableKeeps(spec_mae)
             /\ EncapHeaderDisableKeeps(
                    Ent(action_sets, spec_mae.action_set).encap_header)
             /\ ActionSetDisableKeeps(spec_mae)]_vars

\* C38: a freshly allocated counter reads as zero whatever the slot has
\* accumulated before.  The add moves the baseline to the accumulated value
\* and has stored the generation number of the allocation when it sets the
\* in-use flag; a slot that reads as zero keeps doing so through every step
\* but the store of an accepted update; and a query of a slot that reads as
\* zero returns 0 hits and 0 bytes.
ReadsZero(c) == c.value = c.reset

Ipv4HeaderAt(buf, items) ==
    LET k == CHOOSE k \in 1..Len(items) : items[k].type = "IPV4"
    IN BufRead(buf, LayersSize(items, k - 1), proto_header_size.IPV4)

ChecksumOf(hdr) == BufRead(hdr, hdr_offsetof.hdr_checksum, 2)

ChecksumCleared(hdr) ==
    BufWrite(hdr, hdr_offsetof.hdr_checksum, RTE_BE16(0))

C39_ChecksumOfStoredHeader ==
    (/\ last.op = "vxlan_encap"
     /\ last.rc = OK
     /\ \E k \in 1..Len(last.arg.conf.definition) :
           last.arg.conf.definition[k].type = "IPV4") =>
        LET items == NonVoid(last.arg.conf.definition)
            stored == Ipv4HeaderAt(last.arg.buf, items)
            summed == Ipv4HeaderAt(last.arg.assembled, items)
        IN /\ ChecksumOf(stored) = rte_ipv4_cksum(ChecksumCleared(stored))
           /\ ChecksumCleared(stored) = ChecksumCleared(summed)

\* C40: the table of internal rules never leaks a slot.  A failed
\* sfc_mae_rule_add_mport_match_deliver leaves the set of empty slots as it
\* was; the number of occupied slots is the number of rules added and not
\* yet deleted; and ENOSPC is returned only when that number is
\* SFC_MAE_NB_RULES_MAX.
EmptySlots(rules) == {e \in 1..SFC_MAE_NB_RULES_MAX : rules[e].spec = NULL}

RulesHeld == {p \in 1..MaxPorts : repr_ports[p].started}

OccupiedSlotsAreRulesHeld ==
    SFC_MAE_NB_RULES_MAX - Cardinality(EmptySlots(internal_rules))
        = Cardinality(RulesHeld)

C40_NoSlotLeaked ==
    /\ []OccupiedSlotsAreRulesHeld
    /\ [][/\ (last'.op = "rule_add" /\ last'.rc # OK) =>
                 EmptySlots(internal_rules') = EmptySlots(internal_rules)
          /\ (last'.op = "rule_add" /\ last'.rc = "ENOSPC") =>
                 Cardinality(RulesHeld) = SFC_MAE_NB_RULES_MAX]_vars


====
